---- MODULE Spec2Model ----
(***************************************************************************)
(* The WinKeyer host driver: the I/O engine (io_loop and its request        *)
(* handlers), the inbound byte classifier, the IoHandle request/reply       *)
(* paths and the facade operations that go through the XOFF gate.           *)
(*                                                                          *)
(* The engine, every facade caller and the transport are separate           *)
(* processes; each action below is one step between two suspension points   *)
(* of the code it models.                                                   *)
(***************************************************************************)
EXTENDS Integers, Sequences, FiniteSets, TLC

(***************************************************************************)
(* Bounds of the model.                                                     *)
(***************************************************************************)
\* Facade calls started in one behaviour (all tasks together).
MaxCalls == 3
\* Bytes the transport delivers in one behaviour.
MaxInbound == 1
\* The same for the scenarios of the XOFF gate.
GateCalls == 2
GateInbound == 2
\* The same for the scenarios of Write-and-Read and of the inbound stream.
ReadCalls == 1
ReadInbound == 3
\* Deadline expiries, transport failures and cancellations in one behaviour.
ByteInbound == 1

MaxTemplate == 5

OrderSlices == 2

TimeoutCalls == 2

EchoCalls == 2

EchoInbound == 2
WaitCalls == 2
WaitInbound == 1
DrainInbound == 3
CloseCalls == 2

MaxFaults == 1

\* BuildSpec: inbound bytes during and after the handshake.
BuildInbound == 3

\* Calls of the cached mode register runs and of the cached speed runs.
ModeCalls == 2
SpeedCalls == 3

\* Calls of the engine-lifecycle runs.
LifeCalls == 2

\* Calls and inbound bytes of the Write-and-Read failure runs.
FaultCalls == 2
FaultInbound == 1

\* Calls of the sidetone-volume runs.
VolumeCalls == 2

\* Calls and inbound bytes of the validation runs.
ValidCalls == 2
ValidInbound == 2

\* The concurrent application tasks that call the facade.
Tasks == {1, 2}

(***************************************************************************)
(* Program constants.                                                       *)
(***************************************************************************)
\* mpsc::channel::<Request>(32)
RT_CAPACITY == 32
\* mpsc::channel::<Request>(64)
BG_CAPACITY == 64
\* let mut read_buf = [0u8; 64]
READ_BUF_LEN == 64
\* broadcast::channel::<KeyerEvent>(256)
EVENT_CAPACITY == 256
\* WinKeyerBuilder::new: min_wpm: 10
DEFAULT_MIN_WPM == 10

(***************************************************************************)
(* Bytes and small helpers.                                                 *)
(***************************************************************************)
Bit(b, k) == (b \div (2 ^ k)) % 2

Min(a, b) == IF a < b THEN a ELSE b

Prefix(s, n) == SubSeq(s, 1, n)

Drop(s, n) == SubSeq(s, n + 1, Len(s))

\* u8::wrapping_add
wrapping_add(a, b) == (a + b) % 256

\* u8::saturating_add
saturating_add(a, b) == IF a + b > 255 THEN 255 ELSE a + b

(***************************************************************************)
(* protocol/command.rs: the encoders the modelled operations use.           *)
(***************************************************************************)
admin_host_close == <<0, 3>>

admin_host_open == <<0, 2>>

admin_set_sidetone_volume(value) == <<0, 25, value>>

admin_echo_test(value) == <<0, 4, value>>

clear_buffer == <<10>>

buffered_wait(seconds) == <<26, seconds>>

buffered_merge(c1, c2) == <<27, c1, c2>>

buffered_speed_change(wpm) == <<28, wpm>>

cancel_buffered_speed == <<30>>

\* A character check that accepts every character.
is_valid_cw_char_any(ch) == TRUE

\* 'A'..='Z' | 'a'..='z' | '0'..='9' | ' ' and the listed punctuation
is_valid_cw_char(ch) ==
    \/ ch \in 65..90
    \/ ch \in 97..122
    \/ ch \in 48..57
    \/ ch \in {32, 46, 44, 63, 47, 33, 61, 43, 45, 58, 59, 39, 34, 40, 41, 64, 38, 95}

validate_cw_text(text) == \A i \in 1..Len(text) : is_valid_cw_char(text[i])

\* char::to_uppercase on one ASCII character
to_uppercase(ch) == IF ch \in 97..122 THEN ch - 32 ELSE ch

encode_text(text) == [i \in 1..Len(text) |-> to_uppercase(text[i])]

(***************************************************************************)
(* message.rs: the contest message template compiler.  A template is a      *)
(* sequence of character codes.                                             *)
(***************************************************************************)
\* take_while(|&c| c != stop).collect(): the characters before the first stop
RECURSIVE take_while(_, _)
take_while(chars, stop) ==
    IF chars = <<>> \/ Head(chars) = stop
    THEN <<>>
    ELSE <<Head(chars)>> \o take_while(Tail(chars), stop)

\* What chars.by_ref().take_while(..) leaves in the iterator: the stop
\* character it tested is consumed as well.
after_take_while(chars, stop) ==
    Drop(chars, Min(Len(chars), Len(take_while(chars, stop)) + 1))

\* str::trim on ASCII text: leading and trailing spaces removed
RECURSIVE trim(_)
trim(str) ==
    IF str = <<>> THEN <<>>
    ELSE IF Head(str) = 32 THEN trim(Tail(str))
    ELSE IF str[Len(str)] = 32 THEN trim(Prefix(str, Len(str) - 1))
    ELSE str

\* The value of a string of decimal digits
RECURSIVE decimal(_)
decimal(digits) ==
    IF digits = <<>> THEN 0
    ELSE 10 * decimal(Prefix(digits, Len(digits) - 1)) + (digits[Len(digits)] - 48)

\* A u8 parser that keeps the low eight bits of a number that is too large.
parse_u8_wrapping(str) ==
    LET digits == IF str # <<>> /\ Head(str) = 43 THEN Tail(str) ELSE str
    IN  IF digits # <<>> /\ (\A i \in 1..Len(digits) : digits[i] \in 48..57)
        THEN decimal(digits) % 256
        ELSE -1

\* str::parse::<u8>: an optional '+', then one or more digits, at most 255;
\* -1 stands for Err.
parse_u8(str) ==
    LET digits == IF str # <<>> /\ Head(str) = 43 THEN Tail(str) ELSE str
    IN  IF /\ digits # <<>>
           /\ \A i \in 1..Len(digits) : digits[i] \in 48..57
           /\ decimal(digits) <= 255
        THEN decimal(digits)
        ELSE -1

\* PROSIGN_AR, PROSIGN_SK, PROSIGN_BT, PROSIGN_KN, PROSIGN_AS
Prosigns == {<<65, 82>>, <<83, 75>>, <<66, 84>>, <<75, 78>>, <<65, 83>>}

\* A prosign lookup that compares the name as written.
parse_prosign_exact(name) == IF name \in Prosigns THEN name ELSE <<>>

\* match name.to_uppercase().as_str() { "AR" => Some(..), .. , _ => None };
\* <<>> stands for None.
parse_prosign(name) ==
    LET upper == [i \in 1..Len(name) |-> to_uppercase(name[i])]
    IN  IF upper \in Prosigns THEN upper ELSE <<>>

\* The '<' arm: the bytes a prosign name adds to the output.
prosign_arm(name) ==
    IF parse_prosign(name) # <<>>
    THEN buffered_merge(parse_prosign(name)[1], parse_prosign(name)[2])
    ELSE <<>>

\* The '{' arm: let wpm: u8 = num_str.trim().parse().unwrap_or(0)
speed_arm(num_str) ==
    LET parsed == parse_u8(trim(num_str))
        wpm    == IF parsed = -1 THEN 0 ELSE parsed
    IN  IF wpm = 0 THEN cancel_buffered_speed ELSE buffered_speed_change(wpm)

\* while let Some(&ch) = chars.peek() { match ch { '<' .. '{' .. _ .. } }
RECURSIVE build_contest_message(_)
build_contest_message(template) ==
    IF template = <<>> THEN <<>>
    ELSE LET ch == Head(template)
         IN  IF ch = 60
             THEN prosign_arm(take_while(Tail(template), 62))
                  \o build_contest_message(after_take_while(Tail(template), 62))
             ELSE IF ch = 123
             THEN speed_arm(take_while(Tail(template), 125))
                  \o build_contest_message(after_take_while(Tail(template), 125))
             ELSE <<to_uppercase(ch) % 256>>
                  \o build_contest_message(Tail(template))

(***************************************************************************)
(* event.rs / protocol/response.rs: status decoding and classification.     *)
(***************************************************************************)
\* A decoder that takes the xoff flag from bit 1 and breakin from bit 0.
from_status_byte_swapped(byte) ==
    [xoff    |-> Bit(byte, 1) = 1,
     breakin |-> Bit(byte, 0) = 1,
     busy    |-> Bit(byte, 2) = 1,
     keydown |-> Bit(byte, 3) = 1,
     waiting |-> Bit(byte, 4) = 1]

\* KeyerStatus::from_status_byte
from_status_byte(byte) ==
    [xoff    |-> Bit(byte, 0) = 1,
     breakin |-> Bit(byte, 1) = 1,
     busy    |-> Bit(byte, 2) = 1,
     keydown |-> Bit(byte, 3) = 1,
     waiting |-> Bit(byte, 4) = 1]

NoStatus == from_status_byte(0)

\* A classification by the top bit alone: 1 is Status, 0 is Echo.
classify_byte_top_bit(byte) ==
    IF byte >= 128
    THEN [class |-> "Status", status |-> from_status_byte(byte), value |-> 0]
    ELSE [class |-> "Echo", status |-> NoStatus, value |-> byte]

\* match byte & 0xC0 { 0xC0 => Status, 0x80 => SpeedPot, _ => Echo }
classify_byte(byte) ==
    LET top == byte - (byte % 64)
    IN  IF top = 192
        THEN [class |-> "Status", status |-> from_status_byte(byte), value |-> 0]
        ELSE IF top = 128
        THEN [class |-> "SpeedPot", status |-> NoStatus, value |-> byte % 64]
        ELSE [class |-> "Echo", status |-> NoStatus, value |-> byte]

(***************************************************************************)
(* KeyerEvent.  src is the position, in arrival order, of the inbound byte  *)
(* the event was derived from (0 for events not derived from a byte).       *)
(***************************************************************************)
Event(kind, status, n, src) ==
    [kind |-> kind, status |-> status, n |-> n, src |-> src]

Connected == Event("Connected", NoStatus, 0, 0)

Disconnected == Event("Disconnected", NoStatus, 0, 0)

(***************************************************************************)
(* protocol/types.rs: versions, paddle modes, the mode register, defaults.  *)
(***************************************************************************)
\* Bitwise or / and of two bytes.
BitOr(a, b) ==
    LET f[k \in 0..8] ==
            IF k = 8 THEN 0
            ELSE (IF Bit(a, k) = 1 \/ Bit(b, k) = 1 THEN 2 ^ k ELSE 0) + f[k + 1]
    IN  f[0]

BitAnd(a, b) ==
    LET f[k \in 0..8] ==
            IF k = 8 THEN 0
            ELSE (IF Bit(a, k) = 1 /\ Bit(b, k) = 1 THEN 2 ^ k ELSE 0) + f[k + 1]
    IN  f[0]

\* !x for a byte.
BitNot(a) == 255 - a

\* A version table that takes every unknown byte for a WK2.
from_version_byte_lenient(byte) ==
    IF byte = 30 THEN "Wk3"
    ELSE IF byte = 31 THEN "Wk31"
    ELSE "Wk2"

\* WinKeyerVersion::from_version_byte ("None" for an unknown byte).
from_version_byte(byte) ==
    IF byte \in 20..23 THEN "Wk2"
    ELSE IF byte = 30 THEN "Wk3"
    ELSE IF byte = 31 THEN "Wk31"
    ELSE "None"

\* A version test that takes every keyer for a WK3.
supports_wk3_always(version) == TRUE

\* WinKeyerVersion::supports_wk3
supports_wk3(version) == version \in {"Wk3", "Wk31"}

PaddleModes == {"IambicA", "IambicB", "Ultimatic", "Bug"}

\* PaddleMode::to_mode_bits
to_mode_bits(mode) ==
    CASE mode = "IambicB"   -> 0
      [] mode = "IambicA"   -> 16
      [] mode = "Ultimatic" -> 32
      [] OTHER              -> 48

\* ModeRegister flags.
PADDLE_ECHO == 64

SWAP_PADDLES == 8

SERIAL_ECHO == 4

AUTO_SPACE == 2

CONTEST_SPACING == 1

\* The two paddle-mode bits of the mode register (0x30).
PADDLE_MODE_MASK == 48

\* impl Default for ModeRegister
ModeRegister_default == BitOr(PADDLE_ECHO, SERIAL_ECHO)

\* ModeRegister::with_paddle_mode
with_paddle_mode(flags, mode) == BitOr(flags, to_mode_bits(mode))

\* PinConfig::default().bits(): PTT | sidetone | key output.
PinConfig_default == 7

\* impl Default for LoadDefaults
LoadDefaults_default ==
    [mode_register |-> with_paddle_mode(ModeRegister_default, "IambicB"),
     speed_wpm |-> 20, sidetone |-> 5, weight |-> 50, lead_in_time |-> 0,
     tail_time |-> 0, min_wpm |-> 10, wpm_range |-> 25, x2_mode |-> 0,
     key_compensation |-> 0, farnsworth_wpm |-> 0, paddle_setpoint |-> 50,
     dit_dah_ratio |-> 50, pin_config |-> PinConfig_default, x1_mode |-> 0]

\* LoadDefaults::to_bytes
to_bytes(d) ==
    <<d.mode_register, d.speed_wpm, d.sidetone, d.weight, d.lead_in_time,
      d.tail_time, d.min_wpm, d.wpm_range, d.x2_mode, d.key_compensation,
      d.farnsworth_wpm, d.paddle_setpoint, d.dit_dah_ratio, d.pin_config,
      d.x1_mode>>

clamp(x, lo, hi) == IF x < lo THEN lo ELSE IF x > hi THEN hi ELSE x

\* types::sidetone_byte
sidetone_byte(freq_hz, version) ==
    LET f == clamp(freq_hz, 500, 4000)
    IN  IF supports_wk3(version)
        THEN (62500 \div f) % 256
        ELSE clamp(4000 \div f, 1, 10)

(***************************************************************************)
(* protocol/command.rs: the immediate commands of the cached settings.      *)
(***************************************************************************)
sidetone_control(value) == <<1, value>>

set_speed(wpm) == <<2, wpm>>

set_weight(weight) == <<3, weight>>

set_mode_register(mode) == <<14, mode>>

load_defaults(d) == <<15>> \o to_bytes(d)

set_ratio(ratio) == <<23, ratio>>

(***************************************************************************)
(* State.                                                                   *)
(***************************************************************************)
VARIABLES
    rt_q,          \* RT mpsc channel: ids of the queued requests, oldest first
    bg_q,          \* BG mpsc channel
    reqs,          \* every request sent so far; a request's id is its index
    reply,         \* per request: what the engine sent on its oneshot
    served,        \* the requests the engine dequeued, in order, each with the
                   \* number of requests sent, of RT requests queued and of
                   \* inbound bytes read by then
    cancelled,     \* CancellationToken
    io_pc,         \* engine position: "select", "write", "read", "exited"
    cur,           \* id of the request the engine is handling (0: none)
    pos,           \* bytes of cur.data written so far (write_all progress)
    response,      \* read_response_bytes: the response collected so far
    read_buf,      \* transport: inbound bytes available and not yet read
    port,          \* transport: "open", "closed" (MockPort::close), "eof"
    write_log,     \* transport: every byte written, with the request it is of
    record_log,    \* whether the transport keeps write_log (MockPort does)
    rx_log,        \* transport: every byte it delivered, in arrival order
    events,        \* every event sent on the broadcast bus, in order
    xoff,          \* IoState.xoff / IoHandle.xoff (shared atomic)
    prev_breakin,  \* IoState.prev_breakin
    min_wpm,       \* IoState.min_wpm
    pc,            \* per task: position in the facade call
    op,            \* per task: the call in progress (or the last one)
    result,        \* per task: result of the last finished call
    rid,           \* per task: id of the request it awaits
    sub,           \* per task: wait_xoff's broadcast receiver position
    saw_xoff,      \* per task: wait_xoff's first load found the flag set
    cleared,       \* per task: a Status with xoff=0 was processed since then
    woken,         \* per task: one was processed while wait_xoff was subscribed
    nread,         \* inbound bytes read by the engine
    budget,        \* what the behaviour may still do: [calls, inbound, faults]
    builder,       \* WinKeyerBuilder: its settings and where build_with_port is
    keyer,         \* WinKeyer: version, cached speed, cached mode register
    subscribers    \* receivers the application holds (WinKeyer::subscribe)

vars == <<rt_q, bg_q, reqs, reply, served, cancelled, io_pc, cur, pos,
          response, read_buf, port, write_log, record_log, rx_log, events, xoff,
          prev_breakin, min_wpm, pc, op, result, rid, sub, saw_xoff, cleared,
          woken,
          nread, budget, builder, keyer, subscribers>>

io_vars == <<cancelled, io_pc, cur, pos, response>>

state_vars == <<xoff, prev_breakin, min_wpm, events, nread, cleared, woken>>

queue_vars == <<rt_q, bg_q, reqs, reply, served>>

port_vars == <<read_buf, port, write_log, record_log, rx_log>>

task_vars == <<pc, op, result, sub, saw_xoff, budget>>

keyer_vars == <<builder, keyer, subscribers>>

(***************************************************************************)
(* Requests (io.rs Request) and replies (the oneshot of each request).      *)
(***************************************************************************)
Request(t, chan, kind, data, expected, framing) ==
    [task |-> t, chan |-> chan, kind |-> kind, data |-> data,
     expected |-> expected, framing |-> framing]

NoReply == [res |-> "none", data |-> <<>>, upto |-> 0]

\* A reply, with the number of inbound bytes the engine had read by then.
ReplyAt(res, data, n) == [res |-> res, data |-> data, upto |-> n]

Reply(res, data) == ReplyAt(res, data, nread)

\* Ids of the requests a channel, the engine or an awaiting caller still holds.
LiveIds ==
    {rt_q[i] : i \in 1..Len(rt_q)} \cup {bg_q[i] : i \in 1..Len(bg_q)}
        \cup {cur} \cup {rid[t] : t \in {u \in Tasks : pc[u] \in {"await", "shutdown_await"}}}

\* The id a new request gets: the next index while the history is recorded,
\* otherwise the lowest id nothing refers to any more.
NewId ==
    LET free == (1..Len(reqs)) \ LiveIds
    IN  IF record_log \/ free = {}
        THEN Len(reqs) + 1
        ELSE CHOOSE i \in free : \A j \in free : i <= j

Put(s, i, x) == IF i = Len(s) + 1 THEN Append(s, x) ELSE [s EXCEPT ![i] = x]

\* A history variable changes only while the history is recorded.
Hist(old, new) == IF record_log THEN new ELSE old

\* One unit of the behaviour's budget of kind k (a bound of the model) is used.
Spend(k) ==
    /\ budget[k] > 0
    /\ budget' = [budget EXCEPT ![k] = @ - 1]

(***************************************************************************)
(* The broadcast bus.  broadcast::Sender::send stores the event only while  *)
(* some receiver is alive; otherwise it returns Err and the event is gone   *)
(* (every send of the program ignores the result).                          *)
(***************************************************************************)
\* Live receivers: the application's and those of the calls in wait_xoff.
rx_cnt == subscribers + Cardinality({t \in Tasks : pc[t] \in {"loop", "recv"}})

\* A bus that stores no event.
send_unheard(es, e) == es

\* let _ = event_tx.send(e)
send(es, e) == IF rx_cnt = 0 THEN es ELSE Append(es, e)

(***************************************************************************)
(* io.rs process_received_byte.  s is the IoState plus the event bus.       *)
(***************************************************************************)
\* PaddleBreakIn for every status that has the breakin bit set.
breakin_level(status, prev) == status.breakin

\* if status.breakin && !state.prev_breakin
breakin_edge(status, prev) == status.breakin /\ ~prev

process_received_byte(byte, src, s) ==
    LET c == classify_byte(byte)
    IN  CASE c.class = "Status" ->
               [s EXCEPT
                  !.xoff = c.status.xoff,
                  !.prev_breakin = c.status.breakin,
                  !.events =
                      send(IF breakin_edge(c.status, s.prev_breakin)
                           THEN send(s.events, Event("PaddleBreakIn", NoStatus, 0, src))
                           ELSE s.events,
                           Event("StatusChanged", c.status, 0, src))]
          [] c.class = "SpeedPot" ->
               [s EXCEPT
                  !.events = send(s.events,
                      Event("SpeedPotChanged", NoStatus,
                            saturating_add(s.min_wpm, c.value), src))]
          [] OTHER ->
               [s EXCEPT
                  !.events = send(s.events,
                      Event("CharacterSent", NoStatus, c.value, src))]

\* A loop over the bytes of one read from the last to the first.
RECURSIVE process_all_reversed(_, _, _)
process_all_reversed(bytes, src, s) ==
    IF bytes = <<>>
    THEN s
    ELSE process_all_reversed(Prefix(bytes, Len(bytes) - 1), src,
             process_received_byte(bytes[Len(bytes)], src + Len(bytes) - 1, s))

\* for &byte in &read_buf[..n] { process_received_byte(byte, ..) }
RECURSIVE process_all(_, _, _)
process_all(bytes, src, s) ==
    IF bytes = <<>>
    THEN s
    ELSE process_all(Tail(bytes), src + 1,
                     process_received_byte(Head(bytes), src, s))

IoState == [xoff |-> xoff, prev_breakin |-> prev_breakin,
            min_wpm |-> min_wpm, events |-> events]

ClearsXoff(bytes) ==
    \E i \in 1..Len(bytes) :
        /\ classify_byte(bytes[i]).class = "Status"
        /\ ~classify_byte(bytes[i]).status.xoff

\* The engine processed `bytes` (the next unread ones, in order).
Processed(bytes, s) ==
    /\ xoff' = s.xoff
    /\ prev_breakin' = s.prev_breakin
    /\ events' = s.events
    /\ nread' = nread + Len(bytes)
    /\ cleared' = IF ClearsXoff(bytes) THEN [t \in Tasks |-> TRUE] ELSE cleared
    /\ woken' = IF ClearsXoff(bytes)
                THEN [t \in Tasks |-> woken[t] \/ pc[t] \in {"loop", "recv"}]
                ELSE woken
    /\ UNCHANGED min_wpm

(***************************************************************************)
(* io.rs io_loop: the biased select.                                        *)
(***************************************************************************)
\* A transport whose read never becomes ready.
port_ready_never == FALSE

\* A transport read is ready: data, an error or EOF.
port_ready == read_buf # <<>> \/ port # "open"

\* A select that polls the cancellation token last.
select_cancel_last ==
    IF rt_q # <<>> THEN "rt"
    ELSE IF bg_q # <<>> THEN "bg"
    ELSE IF port_ready THEN "read"
    ELSE IF cancelled THEN "cancel"
    ELSE "pending"

\* A select in which the transport read is never ready.
select_no_read ==
    IF cancelled THEN "cancel"
    ELSE IF rt_q # <<>> THEN "rt"
    ELSE IF bg_q # <<>> THEN "bg"
    ELSE "pending"

\* A select that polls the BG channel before the RT channel.
select_bg_first ==
    IF cancelled THEN "cancel"
    ELSE IF bg_q # <<>> THEN "bg"
    ELSE IF rt_q # <<>> THEN "rt"
    ELSE IF port_ready THEN "read"
    ELSE "pending"

\* tokio::select! { biased; cancel, rt_rx.recv(), bg_rx.recv(), port.read() }
select_branch ==
    IF cancelled THEN "cancel"
    ELSE IF rt_q # <<>> THEN "rt"
    ELSE IF bg_q # <<>> THEN "bg"
    ELSE IF port_ready THEN "read"
    ELSE "pending"

\* The engine returns: both receivers are dropped, and with them every
\* request still queued (its reply sender is dropped unanswered).
Exit(answered) ==
    LET queued == ({rt_q[i] : i \in 1..Len(rt_q)} \cup {bg_q[i] : i \in 1..Len(bg_q)})
                      \ {answered}
    IN  /\ io_pc' = "exited"
        /\ cur' = 0
        /\ pos' = 0
        /\ response' = <<>>
        /\ rt_q' = <<>>
        /\ bg_q' = <<>>
        /\ reply' = [i \in DOMAIN reply |->
                        IF i = answered THEN Reply("Ok", <<>>)
                        ELSE IF i \in queued THEN Reply("dropped", <<>>)
                        ELSE reply[i]]

\* A select that is polled again while a request is still being handled.
at_select_or_waiting(pcv) == pcv \in {"select", "read"}

\* loop { tokio::select! { .. } }: every arm runs to its end (handle_request
\* is awaited inside the arm) before the select is polled again.
at_select(pcv) == pcv = "select"

\* _ = cancel.cancelled() => break
IoCancelled ==
    /\ at_select(io_pc)
    /\ select_branch = "cancel"
    /\ Exit(0)
    /\ UNCHANGED <<reqs, served, cancelled>>
    /\ UNCHANGED <<state_vars, port_vars, task_vars, rid>>
    /\ UNCHANGED keyer_vars

\* A channel that hands out the request sent last.
recv_newest(q) == q[Len(q)]

\* mpsc::Receiver::recv: the request sent first.
recv(q) == Head(q)

Without(q, id) == SelectSeq(q, LAMBDA x : x # id)

\* An engine that takes up a request only while its caller still awaits
\* the reply.
takes_up_awaited(id) ==
    \E t \in Tasks : pc[t] \in {"await", "shutdown_await"} /\ rid[t] = id

\* Some(req) => handle_request(req, ..): every request received is handled;
\* the engine never looks at whether its reply receiver is still there.
takes_up(id) == TRUE

\* req = rt_rx.recv() / bg_rx.recv(): Shutdown replies Ok and returns,
\* any other request goes to handle_request.
IoRecv(ch) ==
    LET q  == IF ch = "rt" THEN rt_q ELSE bg_q
        id == recv(q)
    IN  /\ served' = Hist(served, Append(served,
                       [id |-> id, seen |-> Len(reqs), rt_len |-> Len(rt_q),
                        nread |-> nread]))
        /\ IF reqs[id].kind = "Shutdown"
           THEN Exit(id)
           ELSE /\ io_pc' = IF takes_up(id) THEN "write" ELSE io_pc
                /\ cur' = IF takes_up(id) THEN id ELSE cur
                /\ pos' = 0
                /\ response' = <<>>
                /\ rt_q' = IF ch = "rt" THEN Without(rt_q, id) ELSE rt_q
                /\ bg_q' = IF ch = "bg" THEN Without(bg_q, id) ELSE bg_q
                /\ UNCHANGED reply
        /\ UNCHANGED <<reqs, cancelled>>
        /\ UNCHANGED <<state_vars, port_vars, task_vars, rid>>

\* Some(req) = rt_rx.recv()
IoRecvRt ==
    /\ at_select(io_pc)
    /\ select_branch = "rt"
    /\ IoRecv("rt")
    /\ UNCHANGED keyer_vars

\* Some(req) = bg_rx.recv()
IoRecvBg ==
    /\ at_select(io_pc)
    /\ select_branch = "bg"
    /\ IoRecv("bg")
    /\ UNCHANGED keyer_vars

\* result = port.read(&mut read_buf): the idle read path.
IoRead ==
    /\ at_select(io_pc)
    /\ select_branch = "read"
    /\ IF port = "closed" \/ (port = "eof" /\ read_buf = <<>>)
       THEN \* Err(e) (MockPort checks closed first) or Ok(0): Disconnected, break
            /\ Exit(0)
            /\ events' = send(events, Disconnected)
            /\ UNCHANGED <<xoff, prev_breakin, min_wpm, nread, cleared, woken, read_buf>>
       ELSE LET n     == Min(READ_BUF_LEN, Len(read_buf))
                bytes == Prefix(read_buf, n)
            IN  /\ Processed(bytes, process_all(bytes, nread + 1, IoState))
                /\ read_buf' = Drop(read_buf, n)
                /\ UNCHANGED <<io_pc, cur, pos, response, rt_q, bg_q, reply>>
    /\ UNCHANGED <<reqs, served, cancelled, port, write_log, record_log, rx_log>>
    /\ UNCHANGED <<task_vars, rid>>
    /\ UNCHANGED keyer_vars

(***************************************************************************)
(* io.rs handle_request: port.write_all(&data), then the reply (Write) or   *)
(* the wait for the response (WriteAndRead).                                *)
(***************************************************************************)
Logged(id, bytes) == [i \in 1..Len(bytes) |-> [b |-> bytes[i], id |-> id]]

\* port.write(&data): done after the first write, however much it took.
write_once_done(written, len) == TRUE

\* port.write_all(&data): done when every byte has been written.
write_all_done(written, len) == written >= len

IoWrite ==
    /\ io_pc = "write"
    /\ LET r == reqs[cur]
       IN  IF port = "closed"
           THEN \* write error: Disconnected is published, the reply is Err(Io)
                /\ events' = send(events, Disconnected)
                /\ reply' = [reply EXCEPT ![cur] = Reply("Io", <<>>)]
                /\ io_pc' = "select"
                /\ cur' = 0
                /\ pos' = 0
                /\ UNCHANGED <<write_log, response>>
           ELSE \E k \in 1..(Len(r.data) - pos) :
                /\ write_log' = Hist(write_log,
                       write_log \o Logged(cur, SubSeq(r.data, pos + 1, pos + k)))
                /\ UNCHANGED events
                /\ IF ~write_all_done(pos + k, Len(r.data))
                   THEN /\ pos' = pos + k
                        /\ UNCHANGED <<io_pc, cur, reply, response>>
                   ELSE IF r.kind = "Write"
                   THEN /\ reply' = [reply EXCEPT ![cur] = Reply("Ok", <<>>)]
                        /\ io_pc' = "select"
                        /\ cur' = 0
                        /\ pos' = 0
                        /\ UNCHANGED response
                   ELSE IF r.expected = 0
                   THEN /\ reply' = [reply EXCEPT ![cur] = Reply("Ok", <<>>)]
                        /\ io_pc' = "select"
                        /\ cur' = 0
                        /\ pos' = 0
                        /\ UNCHANGED response
                   ELSE /\ io_pc' = "read"
                        /\ pos' = 0
                        /\ response' = <<>>
                        /\ UNCHANGED <<cur, reply>>
    /\ UNCHANGED <<rt_q, bg_q, reqs, served, cancelled>>
    /\ UNCHANGED <<xoff, prev_breakin, min_wpm, nread, cleared, woken>>
    /\ UNCHANGED <<read_buf, port, record_log, rx_log>>
    /\ UNCHANGED <<task_vars, rid>>
    /\ UNCHANGED keyer_vars

(***************************************************************************)
(* io.rs read_response_bytes, one port.read(&mut buf) of one byte per step. *)
(***************************************************************************)
\* A read loop that takes only Status bytes for unsolicited.
is_status_only(byte) == byte >= 192

\* A read loop that also takes upper-case letters for echoes to publish.
is_unsolicited_or_letter(byte) == byte >= 128 \/ byte \in 65..90

\* if byte & 0x80 != 0 { process_received_byte } else { response.push }
is_unsolicited(byte) == byte >= 128

\* Binary framing counts every byte positionally.
binary_is_unsolicited(byte) == FALSE

Unsolicited(framing, byte) ==
    IF framing = "Binary" THEN binary_is_unsolicited(byte) ELSE is_unsolicited(byte)

\* while response.len() < expected
response_complete(resp, expected) == Len(resp) >= expected

\* A wait that tracks the breakin level on its own, starting from 0.
dispatch_own_level(byte, src, s) ==
    [process_received_byte(byte, src, [s EXCEPT !.prev_breakin = FALSE])
        EXCEPT !.prev_breakin = s.prev_breakin]

\* read_response_bytes: process_received_byte(byte, state, event_tx) on the
\* IoState the idle path uses.
dispatch_interleaved(byte, src, s) == process_received_byte(byte, src, s)

IoReadResponse ==
    /\ io_pc = "read"
    /\ port_ready
    /\ LET r == reqs[cur]
       IN  IF port = "closed" \/ read_buf = <<>>
           THEN \* Err(e), or n == 0 (UnexpectedEof): the reply is Err(Io)
                /\ reply' = [reply EXCEPT ![cur] = Reply("Io", <<>>)]
                /\ io_pc' = "select"
                /\ cur' = 0
                /\ response' = <<>>
                /\ UNCHANGED <<state_vars, read_buf>>
           ELSE LET byte == Head(read_buf)
                    uns  == Unsolicited(r.framing, byte)
                    resp == IF uns THEN response ELSE Append(response, byte)
                IN  /\ read_buf' = Tail(read_buf)
                    /\ IF uns
                       THEN Processed(<<byte>>,
                                dispatch_interleaved(byte, nread + 1, IoState))
                       ELSE /\ nread' = nread + 1
                            /\ UNCHANGED <<xoff, prev_breakin, min_wpm, events, cleared, woken>>
                    /\ IF response_complete(resp, r.expected)
                       THEN /\ reply' = [reply EXCEPT ![cur] =
                                           ReplyAt("Ok", resp, nread + 1)]
                            /\ io_pc' = "select"
                            /\ cur' = 0
                            /\ response' = <<>>
                       ELSE /\ response' = resp
                            /\ UNCHANGED <<reply, io_pc, cur>>
    /\ UNCHANGED <<rt_q, bg_q, reqs, served, cancelled, pos>>
    /\ UNCHANGED <<port, write_log, record_log, rx_log>>
    /\ UNCHANGED <<task_vars, rid>>
    /\ UNCHANGED keyer_vars

\* tokio::time::timeout(2 s, read_response_bytes(..)): Err(_) => Timeout.
\* The read is polled first, so the deadline only wins while it is pending.
IoReadTimeout ==
    /\ io_pc = "read"
    /\ ~port_ready
    /\ Spend("faults")
    /\ reply' = [reply EXCEPT ![cur] = Reply("Timeout", <<>>)]
    /\ io_pc' = "select"
    /\ cur' = 0
    /\ response' = <<>>
    /\ UNCHANGED <<rt_q, bg_q, reqs, served, cancelled, pos>>
    /\ UNCHANGED <<state_vars, port_vars, rid>>
    /\ UNCHANGED <<pc, op, result, sub, saw_xoff>>
    /\ UNCHANGED keyer_vars

(***************************************************************************)
(* io.rs IoHandle: the requests the command paths build.                    *)
(***************************************************************************)
rt_command(t, data) == Request(t, "rt", "Write", data, 0, "Ascii")

bg_command(t, data) == Request(t, "bg", "Write", data, 0, "Ascii")

rt_command_read(t, data, expected) ==
    Request(t, "rt", "WriteAndRead", data, expected, "Ascii")

rt_command_read_binary(t, data, expected) ==
    Request(t, "rt", "WriteAndRead", data, expected, "Binary")

shutdown(t) == Request(t, "rt", "Shutdown", <<>>, 0, "Ascii")

(***************************************************************************)
(* winkeyer.rs: the facade operations.  A call is [name, arg, n].           *)
(***************************************************************************)
Op(name, arg, n) == [name |-> name, arg |-> arg, n |-> n]

NoOp == Op("none", <<>>, 0)

send_message(t, text) == bg_command(t, encode_text(text))

abort(t) == rt_command(t, clear_buffer)

\* An echo test that reads its reply with Ascii framing.
echo_test_ascii(t, byte) == rt_command_read(t, admin_echo_test(byte), 1)

echo_test(t, byte) == rt_command_read_binary(t, admin_echo_test(byte), 1)

send_prosign(t, c1, c2) == bg_command(t, buffered_merge(c1, c2))

set_buffered_speed(t, wpm) == bg_command(t, buffered_speed_change(wpm))

cancel_buffered_speed_op(t) == bg_command(t, cancel_buffered_speed)

buffered_wait_op(t, seconds) == bg_command(t, buffered_wait(seconds))

raw_write(t, data) == bg_command(t, data)

close(t) == rt_command(t, admin_host_close)

\* PaddleMode by discriminant, as a call's argument.
PaddleModeOf(k) ==
    CASE k = 0 -> "IambicA"
      [] k = 1 -> "IambicB"
      [] k = 2 -> "Ultimatic"
      [] OTHER -> "Bug"

\* A mode byte built from the default flags, whatever the cache holds.
new_mode_byte_fresh(current, mode) ==
    BitOr(ModeRegister_default, to_mode_bits(mode))

\* let new_byte = (current & !0x30) | mode.to_mode_bits()
new_mode_byte(current, mode) ==
    BitOr(BitAnd(current, BitNot(PADDLE_MODE_MASK)), to_mode_bits(mode))

\* current = self.mode_register.load(Acquire), then the 0E command.
set_paddle_mode(t, mode) ==
    rt_command(t, set_mode_register(new_mode_byte(keyer.mode_register, mode)))

\* A call's defaults block: LoadDefaults::default() with its mode register.
DefaultsWith(mode_register) ==
    [LoadDefaults_default EXCEPT !.mode_register = mode_register]

load_defaults_op(t, d) == rt_command(t, load_defaults(d))

set_speed_op(t, wpm) == rt_command(t, set_speed(wpm))

set_weight_op(t, weight) == rt_command(t, set_weight(weight))

set_ratio_op(t, ratio) == rt_command(t, set_ratio(ratio))

set_sidetone(t, freq_hz) ==
    rt_command(t, sidetone_control(sidetone_byte(freq_hz, keyer.version)))

\* No check of self.version: the command is sent to every keyer.
set_sidetone_volume(t, value) ==
    rt_command(t, admin_set_sidetone_volume(value))

\* The operations that call self.wait_xoff().await? before queueing.
GatedOps == {"send_message", "send_prosign", "set_buffered_speed",
             "cancel_buffered_speed", "buffered_wait", "raw_write"}

\* A facade in which only send_message waits at the gate.
calls_wait_xoff_text_only(o) == o.name = "send_message"

calls_wait_xoff(o) == o.name \in GatedOps

\* A facade that validates only the text of send_message.
passes_validation_text_only(o) ==
    o.name = "send_message" => validate_cw_text(o.arg)

\* The checks a call makes before anything else: validate_cw_text, and
\* if !(lo..=hi).contains(&value) { return Err(InvalidParameter) }
passes_validation(o) ==
    CASE o.name = "send_message" -> validate_cw_text(o.arg)
      [] o.name = "set_speed"    -> o.arg[1] \in 5..99
      [] o.name = "set_weight"   -> o.arg[1] \in 10..90
      [] o.name = "set_ratio"    -> o.arg[1] \in 33..66
      [] o.name = "set_sidetone" -> o.arg[1] \in 500..4000
      [] OTHER                   -> TRUE

\* The request the call `o` of task t sends.
OpRequest(t, o) ==
    CASE o.name = "send_message"          -> send_message(t, o.arg)
      [] o.name = "abort"                 -> abort(t)
      [] o.name = "echo_test"             -> echo_test(t, o.arg[1])
      [] o.name = "rt_command_read"       -> rt_command_read(t, o.arg, o.n)
      [] o.name = "send_prosign"          -> send_prosign(t, o.arg[1], o.arg[2])
      [] o.name = "set_buffered_speed"    -> set_buffered_speed(t, o.arg[1])
      [] o.name = "cancel_buffered_speed" -> cancel_buffered_speed_op(t)
      [] o.name = "buffered_wait"         -> buffered_wait_op(t, o.arg[1])
      [] o.name = "raw_write"             -> raw_write(t, o.arg)
      [] o.name = "set_paddle_mode"       ->
             set_paddle_mode(t, PaddleModeOf(o.arg[1]))
      [] o.name = "load_defaults"         ->
             load_defaults_op(t, DefaultsWith(o.arg[1]))
      [] o.name = "set_speed"             -> set_speed_op(t, o.arg[1])
      [] o.name = "set_weight"            -> set_weight_op(t, o.arg[1])
      [] o.name = "set_ratio"             -> set_ratio_op(t, o.arg[1])
      [] o.name = "set_sidetone"          -> set_sidetone(t, o.arg[1])
      [] o.name = "set_sidetone_volume"   -> set_sidetone_volume(t, o.arg[1])
      [] OTHER                            -> close(t)

Result(res, data) == [res |-> res, data |-> data]

NoResult == Result("none", <<>>)

Pending == Result("pending", <<>>)

\* The call of task t returns r.
Return(t, r) ==
    /\ pc' = [pc EXCEPT ![t] = "idle"]
    /\ result' = [result EXCEPT ![t] = r]

\* The call of task t goes on to position l.
Goto(t, l) ==
    /\ pc' = [pc EXCEPT ![t] = l]
    /\ result' = [result EXCEPT ![t] = Pending]

\* let mut rx = self.event_tx.subscribe()
WaitXoffSubscribe(t) ==
    /\ pc[t] = "subscribe"
    /\ sub' = [sub EXCEPT ![t] = Len(events) + 1]
    /\ Goto(t, "loop")
    /\ UNCHANGED <<op, saw_xoff, rid, budget>>
    /\ UNCHANGED <<queue_vars, io_vars, port_vars, state_vars>>
    /\ UNCHANGED keyer_vars

\* loop { if !self.io.xoff.load(Acquire) { return Ok(()) } ..
WaitXoffCheck(t) ==
    /\ pc[t] = "loop"
    /\ Goto(t, IF xoff THEN "recv" ELSE "send")
    /\ UNCHANGED <<op, sub, saw_xoff, rid, budget>>
    /\ UNCHANGED <<queue_vars, io_vars, port_vars, state_vars>>
    /\ UNCHANGED keyer_vars

\* The oldest event the bus still retains.
oldest_retained == IF Len(events) > EVENT_CAPACITY
                   THEN Len(events) - EVENT_CAPACITY + 1 ELSE 1

\* A wait that any StatusChanged ends.
any_status(e) == e.kind = "StatusChanged"

\* Ok(Ok(KeyerEvent::StatusChanged(status))) if !status.xoff
clears_xoff(e) == e.kind = "StatusChanged" /\ ~e.status.xoff

\* timeout_at(deadline, rx.recv()) returned an event (or Lagged).
WaitXoffRecv(t) ==
    /\ pc[t] = "recv"
    /\ sub[t] <= Len(events)
    /\ IF sub[t] < oldest_retained
       THEN \* Err(Lagged(_)) => continue
            /\ sub' = [sub EXCEPT ![t] = oldest_retained]
            /\ Goto(t, "loop")
       ELSE LET e == events[sub[t]]
            IN  /\ sub' = [sub EXCEPT ![t] = sub[t] + 1]
                /\ Goto(t, IF clears_xoff(e) THEN "send" ELSE "loop")
    /\ UNCHANGED <<op, saw_xoff, rid, budget>>
    /\ UNCHANGED <<queue_vars, io_vars, port_vars, state_vars>>
    /\ UNCHANGED keyer_vars

\* A gate that lets the call through when its deadline passes.
wait_xoff_deadline_ok == Result("Ok", <<>>)

\* What wait_xoff returns when its 10 s deadline passes.
wait_xoff_deadline == Result("BufferFull", <<>>)

\* Err(_) => return Err(Error::BufferFull): recv is polled first, so the
\* deadline only wins while no event is waiting.
WaitXoffDeadline(t) ==
    /\ pc[t] = "recv"
    /\ sub[t] > Len(events)
    /\ Spend("faults")
    /\ Return(t, wait_xoff_deadline)
    /\ UNCHANGED <<op, sub, saw_xoff, rid>>
    /\ UNCHANGED <<queue_vars, io_vars, port_vars, state_vars>>
    /\ UNCHANGED keyer_vars

(***************************************************************************)
(* io.rs rt_command / bg_command / rt_command_read: send, then the reply.   *)
(***************************************************************************)
capacity(chan) == IF chan = "rt" THEN RT_CAPACITY ELSE BG_CAPACITY

\* tx.send(request).await succeeded: the request is in its channel.
Enqueue(t, r) ==
    LET id == NewId
    IN  /\ Len(IF r.chan = "rt" THEN rt_q ELSE bg_q) < capacity(r.chan)
        /\ reqs' = Put(reqs, id, r)
        /\ reply' = Put(reply, id, NoReply)
        /\ rt_q' = IF r.chan = "rt" THEN Append(rt_q, id) ELSE rt_q
        /\ bg_q' = IF r.chan = "bg" THEN Append(bg_q, id) ELSE bg_q
        /\ rid' = [rid EXCEPT ![t] = id]
        /\ UNCHANGED served

\* A close() that gives up when its host-close command fails.
AfterCommand_propagate(t, o, r) ==
    IF o.name = "close" /\ r.res = "Ok"
    THEN Goto(t, "shutdown_send")
    ELSE Return(t, r)

\* After the host-close command close() goes on to shutdown(), whatever the
\* command returned; every other call returns what its command returned.
AfterCommand(t, o, r) ==
    IF o.name = "close" THEN Goto(t, "shutdown_send") ELSE Return(t, r)

\* self.rt_tx / self.bg_tx .send(..).await.map_err(|_| Error::NotConnected)?
SendRequest(t, o) ==
    IF io_pc = "exited"
    THEN /\ AfterCommand(t, o, Result("NotConnected", <<>>))
         /\ rid' = [rid EXCEPT ![t] = 0]
         /\ UNCHANGED queue_vars
    ELSE /\ Enqueue(t, OpRequest(t, o))
         /\ Goto(t, "await")

\* The command of a gated call, once wait_xoff has returned Ok.
Send(t) ==
    /\ pc[t] = "send"
    /\ SendRequest(t, op[t])
    /\ UNCHANGED <<op, sub, saw_xoff, budget>>
    /\ UNCHANGED <<io_vars, port_vars, state_vars>>
    /\ UNCHANGED keyer_vars

(***************************************************************************)
(* A task calls a facade operation and runs it to its first shared access:  *)
(* send_message validates its text; a gated call does wait_xoff's first     *)
(* load of the flag; any other call sends its request.                      *)
(***************************************************************************)
Call(t, o) ==
    /\ builder.pc = "done"
    /\ pc[t] = "idle"
    /\ budget.calls > 0
    /\ budget' = Hist(budget, [budget EXCEPT !.calls = @ - 1])
    /\ op' = [op EXCEPT ![t] = o]
    /\ cleared' = [cleared EXCEPT ![t] = FALSE]
    /\ woken' = [woken EXCEPT ![t] = FALSE]
    /\ IF ~passes_validation(o)
       THEN /\ Return(t, Result("InvalidParameter", <<>>))
            /\ saw_xoff' = [saw_xoff EXCEPT ![t] = FALSE]
            /\ rid' = [rid EXCEPT ![t] = 0]
            /\ UNCHANGED queue_vars
       ELSE IF o.name = "get_speed"
       THEN \* Ok(self.speed.load(Acquire))
            /\ Return(t, Result("Ok", <<keyer.speed>>))
            /\ saw_xoff' = [saw_xoff EXCEPT ![t] = FALSE]
            /\ rid' = [rid EXCEPT ![t] = 0]
            /\ UNCHANGED queue_vars
       ELSE IF calls_wait_xoff(o)
       THEN \* if !self.io.xoff.load(Acquire) { return Ok(()) }
            /\ saw_xoff' = [saw_xoff EXCEPT ![t] = xoff]
            /\ Goto(t, IF xoff THEN "subscribe" ELSE "send")
            /\ rid' = [rid EXCEPT ![t] = 0]
            /\ UNCHANGED queue_vars
       ELSE /\ SendRequest(t, o)
            /\ saw_xoff' = [saw_xoff EXCEPT ![t] = FALSE]
    /\ UNCHANGED sub
    /\ UNCHANGED <<io_vars, port_vars>>
    /\ UNCHANGED <<xoff, prev_breakin, min_wpm, events, nread>>
    /\ UNCHANGED keyer_vars

\* A caller that takes a dropped reply for success.
reply_result_lenient(t, rep) ==
    IF rep.res = "dropped" THEN Result("Ok", <<>>)
    ELSE Result(rep.res, rep.data)

\* What the caller makes of the engine's reply (or of its dropped sender).
reply_result(t, rep) ==
    IF rep.res = "dropped" THEN Result("NotConnected", <<>>)
    ELSE IF rep.res = "Ok" /\ op[t].name = "echo_test"
    THEN Result("Ok", <<rep.data[1]>>)
    ELSE Result(rep.res, rep.data)

\* A facade that updates its caches whatever the command returned.
stores_always(res) == TRUE

\* self.io.rt_command(..).await?; self.speed.store(wpm) (set_speed) or
\* self.mode_register.store(new_byte) (set_paddle_mode): only after Ok.
stores(res) == res = "Ok"

\* The caches after the command of call o (request id) returned r.
Stored(o, id, r) ==
    IF ~stores(r.res) THEN keyer
    ELSE CASE o.name = "set_speed" -> [keyer EXCEPT !.speed = o.arg[1]]
           [] o.name = "set_paddle_mode" ->
                  [keyer EXCEPT !.mode_register = reqs[id].data[2]]
           [] OTHER -> keyer

\* timeout(5 s, reply_rx): the reply arrived.
Await(t) ==
    /\ pc[t] = "await"
    /\ reply[rid[t]].res # "none"
    /\ AfterCommand(t, op[t], reply_result(t, reply[rid[t]]))
    /\ keyer' = Stored(op[t], rid[t], reply_result(t, reply[rid[t]]))
    /\ UNCHANGED <<op, sub, saw_xoff, rid, budget>>
    /\ UNCHANGED <<queue_vars, io_vars, port_vars, state_vars>>
    /\ UNCHANGED <<builder, subscribers>>

\* timeout(5 s, reply_rx): Err(_) => Err(Error::Timeout).
ReplyTimeout(t) ==
    /\ pc[t] = "await"
    /\ reply[rid[t]].res = "none"
    /\ Spend("faults")
    /\ AfterCommand(t, op[t], Result("Timeout", <<>>))
    /\ UNCHANGED <<op, sub, saw_xoff, rid>>
    /\ UNCHANGED <<queue_vars, io_vars, port_vars, state_vars>>
    /\ UNCHANGED keyer_vars

\* A shutdown that leaves the cancellation token alone.
shutdown_cancels_never(res) == FALSE

\* IoHandle::shutdown calls self.cancel.cancel() unless the engine answered
\* the Shutdown request: the send failed ("closed"), the reply sender was
\* dropped, or the 2 s ran out.
shutdown_cancels(res) == res # "Ok"

(***************************************************************************)
(* io.rs IoHandle::shutdown (the second half of close()).                   *)
(***************************************************************************)
ShutdownSend(t) ==
    /\ pc[t] = "shutdown_send"
    /\ IF io_pc = "exited"
       THEN \* send failed: self.cancel.cancel(); return Ok(())
            /\ cancelled' = (cancelled \/ shutdown_cancels("closed"))
            /\ Return(t, Result("Ok", <<>>))
            /\ UNCHANGED <<queue_vars, rid>>
       ELSE /\ Enqueue(t, shutdown(t))
            /\ Goto(t, "shutdown_await")
            /\ UNCHANGED cancelled
    /\ UNCHANGED <<op, sub, saw_xoff, budget>>
    /\ UNCHANGED <<io_pc, cur, pos, response>>
    /\ UNCHANGED <<port_vars, state_vars>>
    /\ UNCHANGED keyer_vars

ShutdownAwait(t) ==
    /\ pc[t] = "shutdown_await"
    /\ reply[rid[t]].res # "none"
    /\ cancelled' = (cancelled \/ shutdown_cancels(reply[rid[t]].res))
    /\ Return(t, Result("Ok", <<>>))
    /\ UNCHANGED <<op, sub, saw_xoff, rid, budget>>
    /\ UNCHANGED <<io_pc, cur, pos, response>>
    /\ UNCHANGED <<queue_vars, port_vars, state_vars>>
    /\ UNCHANGED keyer_vars

ShutdownTimeout(t) ==
    /\ pc[t] = "shutdown_await"
    /\ reply[rid[t]].res = "none"
    /\ Spend("faults")
    /\ cancelled' = (cancelled \/ shutdown_cancels("Timeout"))
    /\ Return(t, Result("Ok", <<>>))
    /\ UNCHANGED <<op, sub, saw_xoff, rid>>
    /\ UNCHANGED <<io_pc, cur, pos, response>>
    /\ UNCHANGED <<queue_vars, port_vars, state_vars>>
    /\ UNCHANGED keyer_vars

(***************************************************************************)
(* The environment: the transport and the owner of the cancellation token.  *)
(***************************************************************************)
\* MockPort::queue_read: the keyer sends a byte.
queue_read(b) ==
    /\ Spend("inbound")
    /\ read_buf' = Append(read_buf, b)
    /\ rx_log' = Hist(rx_log, Append(rx_log, b))
    /\ UNCHANGED <<port, write_log, record_log>>
    /\ UNCHANGED <<queue_vars, io_vars, state_vars, rid>>
    /\ UNCHANGED <<pc, op, result, sub, saw_xoff>>
    /\ UNCHANGED keyer_vars

\* MockPort::queue_read(&[..]): the keyer's bytes arrive together.
queue_read_slice(bytes) ==
    /\ Spend("inbound")
    /\ read_buf' = read_buf \o bytes
    /\ rx_log' = Hist(rx_log, rx_log \o bytes)
    /\ UNCHANGED <<port, write_log, record_log>>
    /\ UNCHANGED <<queue_vars, io_vars, state_vars, rid>>
    /\ UNCHANGED <<pc, op, result, sub, saw_xoff>>
    /\ UNCHANGED keyer_vars

\* MockPort::close: reads and writes fail from now on.
PortClose ==
    /\ port = "open"
    /\ Spend("faults")
    /\ port' = "closed"
    /\ UNCHANGED <<read_buf, write_log, record_log, rx_log>>
    /\ UNCHANGED <<queue_vars, io_vars, state_vars, rid>>
    /\ UNCHANGED <<pc, op, result, sub, saw_xoff>>
    /\ UNCHANGED keyer_vars

\* The transport reaches end of file: reads return Ok(0) once drained.
PortEof ==
    /\ port = "open"
    /\ Spend("faults")
    /\ port' = "eof"
    /\ UNCHANGED <<read_buf, write_log, record_log, rx_log>>
    /\ UNCHANGED <<queue_vars, io_vars, state_vars, rid>>
    /\ UNCHANGED <<pc, op, result, sub, saw_xoff>>
    /\ UNCHANGED keyer_vars

\* io.cancel.cancel()
Cancel ==
    /\ ~cancelled
    /\ Spend("faults")
    /\ cancelled' = TRUE
    /\ UNCHANGED <<io_pc, cur, pos, response>>
    /\ UNCHANGED <<queue_vars, port_vars, state_vars, rid>>
    /\ UNCHANGED <<pc, op, result, sub, saw_xoff>>
    /\ UNCHANGED keyer_vars

(***************************************************************************)
(* builder.rs WinKeyerBuilder: the settings and their chainable setters.    *)
(***************************************************************************)
\* WinKeyerBuilder::new
WinKeyerBuilder_new ==
    [speed_wpm |-> 20, paddle_mode |-> "IambicB",
     mode_flags |-> ModeRegister_default, pin_config |-> PinConfig_default,
     sidetone |-> 5, weight |-> 50, ptt_lead_in |-> 0, ptt_tail |-> 0,
     min_wpm |-> DEFAULT_MIN_WPM, wpm_range |-> 25, farnsworth_wpm |-> 0,
     dit_dah_ratio |-> 50, prefer_wk3 |-> TRUE]

speed(b, wpm) == [b EXCEPT !.speed_wpm = wpm]

paddle_mode(b, mode) == [b EXCEPT !.paddle_mode = mode]

contest_spacing(b, enabled) ==
    [b EXCEPT !.mode_flags = IF enabled THEN BitOr(@, CONTEST_SPACING)
                             ELSE BitAnd(@, BitNot(CONTEST_SPACING))]

auto_space(b, enabled) ==
    [b EXCEPT !.mode_flags = IF enabled THEN BitOr(@, AUTO_SPACE)
                             ELSE BitAnd(@, BitNot(AUTO_SPACE))]

\* WinKeyerBuilder::min_wpm
builder_min_wpm(b, wpm) == [b EXCEPT !.min_wpm = wpm]

prefer_wk3(b, enabled) == [b EXCEPT !.prefer_wk3 = enabled]

\* Step 5: the LoadDefaults block the builder derives from its settings.
build_defaults(b) ==
    [mode_register |-> with_paddle_mode(b.mode_flags, b.paddle_mode),
     speed_wpm |-> b.speed_wpm, sidetone |-> b.sidetone, weight |-> b.weight,
     lead_in_time |-> b.ptt_lead_in, tail_time |-> b.ptt_tail,
     min_wpm |-> b.min_wpm, wpm_range |-> b.wpm_range, x2_mode |-> 0,
     key_compensation |-> 0, farnsworth_wpm |-> b.farnsworth_wpm,
     paddle_setpoint |-> 50, dit_dah_ratio |-> b.dit_dah_ratio,
     pin_config |-> b.pin_config, x1_mode |-> b.min_wpm]

\* Step 4: if version.supports_wk3() && self.prefer_wk3 { 00 13 } else { 00 0B }
mode_command(version, prefer) ==
    IF supports_wk3(version) /\ prefer THEN <<0, 19>> ELSE <<0, 11>>

\* A re-assert that always sends the default mode register.
reassert_default(defaults) == set_mode_register(ModeRegister_default)

\* Step 7: let mode_byte = defaults.mode_register; write 0E mode_byte
reassert(defaults) == set_mode_register(defaults.mode_register)

\* The cached mode register of a new WinKeyer: the byte sent in step 7.
mode_register_seed(defaults) == defaults.mode_register

\* Ok(WinKeyer { .. })
WinKeyer(version, b) ==
    [version |-> version, speed |-> b.speed_wpm,
     mode_register |-> mode_register_seed(build_defaults(b))]

NoKeyer == [version |-> "None", speed |-> 0, mode_register |-> 0]

(***************************************************************************)
(* builder.rs build_with_port: the handshake, one action per step.  The     *)
(* engine does not exist yet: the builder owns the transport.               *)
(***************************************************************************)
\* build_with_port goes on to step l.
BuildGoto(l) == builder' = [builder EXCEPT !.pc = l]

\* build_with_port returns Err(res).
BuildFail(res) == builder' = [builder EXCEPT !.pc = "failed", !.result = res]

\* port.write_all(bytes).await.map_err(|e| Error::Transport(..))?
BuildWrite(bytes, l) ==
    /\ IF port = "closed"
       THEN /\ BuildFail("Transport")
            /\ UNCHANGED write_log
       ELSE /\ BuildGoto(l)
            /\ write_log' = Hist(write_log, write_log \o Logged(0, bytes))
    /\ UNCHANGED <<read_buf, port, record_log, rx_log>>
    /\ UNCHANGED <<queue_vars, io_vars, state_vars, task_vars, rid>>
    /\ UNCHANGED <<keyer, subscribers>>

\* A drain that breaks before its first read.
drain_break_at_once == TRUE

\* _ => break: the read failed, or nothing came within the 50 ms window.
drain_break == port = "closed" \/ read_buf = <<>>

\* loop { match timeout(50 ms, port.read(&mut drain_buf)) {
\*     Ok(Ok(n)) if n > 0 => continue, _ => break } }
BuildDrain(l) ==
    /\ IF ~drain_break
       THEN LET n == Min(READ_BUF_LEN, Len(read_buf))
            IN  /\ read_buf' = Drop(read_buf, n)
                /\ nread' = nread + n
                /\ UNCHANGED builder
       ELSE /\ BuildGoto(l)
            /\ UNCHANGED <<read_buf, nread>>
    /\ UNCHANGED <<port, write_log, record_log, rx_log>>
    /\ UNCHANGED <<xoff, prev_breakin, min_wpm, events, cleared, woken>>
    /\ UNCHANGED <<queue_vars, io_vars, task_vars, rid>>
    /\ UNCHANGED <<keyer, subscribers>>

\* Step 1: defensive close.
BuildDefensiveClose ==
    /\ builder.pc = "close"
    /\ BuildWrite(admin_host_close, "drain")

BuildDrainLeftover ==
    /\ builder.pc = "drain"
    /\ BuildDrain("open")

\* Step 2: host open.
BuildHostOpen ==
    /\ builder.pc = "open"
    /\ BuildWrite(admin_host_open, "version")

\* Step 3: timeout(1 s, port.read_exact(&mut version_buf)), then
\* WinKeyerVersion::from_version_byte(version_byte).ok_or_else(Protocol)?
BuildVersion ==
    /\ builder.pc = "version"
    /\ port_ready
    /\ IF port = "closed" \/ read_buf = <<>>
       THEN \* Ok(Err(e)): a read error or UnexpectedEof
            /\ BuildFail("Transport")
            /\ UNCHANGED <<read_buf, nread>>
       ELSE LET version_byte == Head(read_buf)
            IN  /\ read_buf' = Tail(read_buf)
                /\ nread' = nread + 1
                /\ IF from_version_byte(version_byte) = "None"
                   THEN builder' = [builder EXCEPT !.pc = "failed",
                                       !.result = "Protocol",
                                       !.version_byte = version_byte]
                   ELSE builder' = [builder EXCEPT !.pc = "mode",
                                       !.version_byte = version_byte]
    /\ UNCHANGED <<port, write_log, record_log, rx_log>>
    /\ UNCHANGED <<xoff, prev_breakin, min_wpm, events, cleared, woken>>
    /\ UNCHANGED <<queue_vars, io_vars, task_vars, rid>>
    /\ UNCHANGED <<keyer, subscribers>>

\* Step 3: Err(_) => return Err(Error::Timeout).  The read is polled first,
\* so the deadline only wins while no byte is available.
BuildVersionTimeout ==
    /\ builder.pc = "version"
    /\ ~port_ready
    /\ Spend("faults")
    /\ BuildFail("Timeout")
    /\ UNCHANGED <<pc, op, result, sub, saw_xoff>>
    /\ UNCHANGED <<queue_vars, io_vars, state_vars, port_vars, rid>>
    /\ UNCHANGED <<keyer, subscribers>>

\* Step 4: WK2 or WK3 mode.
BuildMode ==
    /\ builder.pc = "mode"
    /\ BuildWrite(mode_command(from_version_byte(builder.version_byte),
                               builder.cfg.prefer_wk3), "defaults")

\* Step 5: load defaults.
BuildLoadDefaults ==
    /\ builder.pc = "defaults"
    /\ BuildWrite(load_defaults(build_defaults(builder.cfg)), "clear")

\* Step 6: clear buffer, then drain the post-init bytes.
BuildClearBuffer ==
    /\ builder.pc = "clear"
    /\ BuildWrite(clear_buffer, "drain_post")

BuildDrainPostInit ==
    /\ builder.pc = "drain_post"
    /\ BuildDrain("reassert")

\* Step 7: re-assert the mode register.
BuildReassert ==
    /\ builder.pc = "reassert"
    /\ BuildWrite(reassert(build_defaults(builder.cfg)), "start")

\* Step 8: let (event_tx, _) = broadcast::channel(256);
\* let _ = event_tx.send(KeyerEvent::Connected); spawn_io_task(..); Ok(WinKeyer)
BuildStart ==
    /\ builder.pc = "start"
    /\ events' = send(<<>>, Connected)
    /\ io_pc' = "select"
    /\ xoff' = FALSE
    /\ prev_breakin' = FALSE
    /\ min_wpm' = builder.cfg.min_wpm
    /\ keyer' = WinKeyer(from_version_byte(builder.version_byte), builder.cfg)
    /\ builder' = [builder EXCEPT !.pc = "done", !.result = "Ok"]
    /\ UNCHANGED <<cancelled, cur, pos, response>>
    /\ UNCHANGED <<nread, cleared, woken, subscribers>>
    /\ UNCHANGED <<queue_vars, port_vars, task_vars, rid>>

\* WinKeyer::subscribe: the application takes a receiver and keeps it.
Subscribe ==
    /\ builder.pc = "done"
    /\ subscribers = 0
    /\ subscribers' = 1
    /\ UNCHANGED <<builder, keyer>>
    /\ UNCHANGED <<queue_vars, io_vars, state_vars, port_vars, task_vars, rid>>

(***************************************************************************)
(* The system after WinKeyerBuilder::build_with_port has returned.          *)
(***************************************************************************)
\* Everything but the application tasks' positions.
Installed(cfg, version_byte, calls, inbound, faults, record) ==
    /\ rt_q = <<>>
    /\ bg_q = <<>>
    /\ reqs = <<>>
    /\ reply = <<>>
    /\ served = <<>>
    /\ cancelled = FALSE
    /\ io_pc = "select"
    /\ cur = 0
    /\ pos = 0
    /\ response = <<>>
    /\ read_buf = <<>>
    /\ port = "open"
    /\ write_log = <<>>
    /\ rx_log = <<>>
    /\ record_log = record
    /\ events = <<>>
    /\ xoff = FALSE
    /\ prev_breakin = FALSE
    /\ min_wpm = cfg.min_wpm
    /\ result = [t \in Tasks |-> NoResult]
    /\ rid = [t \in Tasks |-> 0]
    /\ sub = [t \in Tasks |-> 0]
    /\ saw_xoff = [t \in Tasks |-> FALSE]
    /\ cleared = [t \in Tasks |-> FALSE]
    /\ woken = [t \in Tasks |-> FALSE]
    /\ nread = 0
    /\ budget = [calls |-> calls, inbound |-> inbound, faults |-> faults]
    /\ builder = [cfg |-> cfg, pc |-> "done", version_byte |-> version_byte,
                  result |-> "Ok"]
    /\ keyer = WinKeyer(from_version_byte(version_byte), cfg)
    /\ subscribers = 1

SetupWith(cfg, version_byte, calls, inbound, faults, record) ==
    /\ Installed(cfg, version_byte, calls, inbound, faults, record)
    /\ pc = [t \in Tasks |-> "idle"]
    /\ op = [t \in Tasks |-> NoOp]

\* A WK2 (version byte 23) built with the default settings.
Setup(calls, inbound, faults, record) ==
    SetupWith(WinKeyerBuilder_new, 23, calls, inbound, faults, record)

(***************************************************************************)
(* The steps of the engine, of a command, of close() and of the XOFF gate.  *)
(***************************************************************************)
IoStep ==
    \/ IoCancelled
    \/ IoRecvRt
    \/ IoRecvBg
    \/ IoRead
    \/ IoWrite

IoReadStep ==
    \/ IoReadResponse
    \/ IoReadTimeout

CommandStep(t) ==
    \/ Send(t)
    \/ Await(t)
    \/ ReplyTimeout(t)

CloseStep(t) ==
    \/ ShutdownSend(t)
    \/ ShutdownAwait(t)
    \/ ShutdownTimeout(t)

GateStep(t) ==
    \/ WaitXoffSubscribe(t)
    \/ WaitXoffCheck(t)
    \/ WaitXoffRecv(t)
    \/ WaitXoffDeadline(t)

(***************************************************************************)
(* Spec: the engine under concurrent RT and BG producers, with close(),     *)
(* cancellation and transport failure.                                      *)
(***************************************************************************)
\* The calls the tasks draw from.
Ops == {Op("abort", <<>>, 0),
        Op("send_message", <<99, 113>>, 0),
        Op("close", <<>>, 0)}

Init == Setup(MaxCalls, 0, MaxFaults, TRUE)

Next ==
    \/ IoStep
    \/ \E t \in Tasks, o \in Ops : Call(t, o)
    \/ \E t \in Tasks : CommandStep(t)
    \/ \E t \in Tasks : CloseStep(t)
    \/ PortClose
    \/ Cancel

Spec == Init /\ [][Next]_vars

(***************************************************************************)
(* FairSpec: RT producers that need never stop, against a transport that    *)
(* keeps no log (request ids are reused, so the state space is finite).     *)
(* The engine task is scheduled fairly: whenever it can take a step it      *)
(* eventually does.  Nothing is assumed of the producers or the transport.  *)
(***************************************************************************)
FairOps == {Op("abort", <<>>, 0)}

\* A status byte without xoff.
FairBytes == {192}

FairInit == Setup(1, MaxInbound, 0, FALSE)

EngineStep ==
    \/ IoRecvRt
    \/ IoRecvBg
    \/ IoRead
    \/ IoWrite

FairNext ==
    \/ IoRecvRt
    \/ IoRead
    \/ IoWrite
    \/ \E t \in Tasks, o \in FairOps : Call(t, o)
    \/ \E t \in Tasks : Await(t)
    \/ \E b \in FairBytes : queue_read(b)

FairSpec == FairInit /\ [][FairNext]_vars /\ WF_vars(EngineStep)

(***************************************************************************)
(* GateSpec: the gated BG operations against a keyer that raises and clears *)
(* XOFF; the gate's deadline may pass.                                      *)
(***************************************************************************)
GateOps == {Op("send_message", <<99, 113>>, 0),
            Op("send_prosign", <<65, 82>>, 0),
            Op("set_buffered_speed", <<25>>, 0),
            Op("cancel_buffered_speed", <<>>, 0),
            Op("buffered_wait", <<1>>, 0),
            Op("raw_write", <<1, 2>>, 0)}

\* Status bytes with xoff=0 and with xoff=1.
GateBytes == {192, 193}

GateInit == Setup(GateCalls, GateInbound, MaxFaults, TRUE)

GateNext ==
    \/ IoRecvBg
    \/ IoRead
    \/ IoWrite
    \/ \E t \in Tasks, o \in GateOps : Call(t, o)
    \/ \E t \in Tasks : GateStep(t)
    \/ \E t \in Tasks : Send(t)
    \/ \E t \in Tasks : Await(t)
    \/ \E b \in GateBytes : queue_read(b)

GateSpec == GateInit /\ [][GateNext]_vars

(***************************************************************************)
(* ReadSpec: Write-and-Read requests (Ascii and echo_test) against a keyer  *)
(* that sends echoes, speed-pot and status bytes at any moment; the read    *)
(* deadline may pass.                                                       *)
(***************************************************************************)
ReadOps == {Op("rt_command_read", <<0, 9>>, 1),
            Op("rt_command_read", <<0, 9>>, 2),
            Op("echo_test", <<85>>, 0),
            Op("echo_test", <<128>>, 0)}

\* An echo (0x55), a speed-pot byte (0x80) and two status bytes (C0, C2).
ReadBytes == {85, 128, 192, 194}

ReadInit == Setup(ReadCalls, ReadInbound, MaxFaults, TRUE)

ReadNext ==
    \/ IoRecvRt
    \/ IoRead
    \/ IoWrite
    \/ IoReadStep
    \/ \E t \in Tasks, o \in ReadOps : Call(t, o)
    \/ \E t \in Tasks : Await(t)
    \/ \E b \in ReadBytes : queue_read(b)

ReadSpec == ReadInit /\ [][ReadNext]_vars

(***************************************************************************)
(* FlagSpec: every kind of facade call (RT write, gated BG write, Ascii and *)
(* positional Write-and-Read) against a keyer that sends echoes, speed-pot  *)
(* bytes and status bytes with xoff clear and set.                          *)
(***************************************************************************)
FlagOps == {Op("abort", <<>>, 0),
            Op("send_message", <<99, 113>>, 0),
            Op("rt_command_read", <<0, 9>>, 1),
            Op("echo_test", <<85>>, 0)}

\* An echo (0x55), a speed-pot byte (0x80), status with xoff=0 and xoff=1.
FlagBytes == {85, 128, 192, 193}

FlagInit == Setup(ReadCalls, ReadInbound, MaxFaults, TRUE)

FlagNext ==
    \/ IoRecvRt
    \/ IoRecvBg
    \/ IoRead
    \/ IoWrite
    \/ IoReadStep
    \/ \E t \in Tasks, o \in FlagOps : Call(t, o)
    \/ \E t \in Tasks : GateStep(t)
    \/ \E t \in Tasks : Send(t)
    \/ \E t \in Tasks : Await(t)
    \/ \E b \in FlagBytes : queue_read(b)

FlagSpec == FlagInit /\ [][FlagNext]_vars

(***************************************************************************)
(* BuildSpec: build_with_port against a keyer that may send leftover bytes, *)
(* a version byte (known or unknown) or nothing, over a transport that may  *)
(* fail; once built, the application may subscribe and the engine reads.    *)
(***************************************************************************)
\* The builder settings tried: the defaults and one setter chain each.
BuildConfigs ==
    {WinKeyerBuilder_new,
     speed(WinKeyerBuilder_new, 28),
     auto_space(contest_spacing(WinKeyerBuilder_new, TRUE), TRUE),
     paddle_mode(WinKeyerBuilder_new, "IambicA"),
     prefer_wk3(WinKeyerBuilder_new, FALSE)}

\* Version bytes of a WK2, a WK3 and a WK3.1, an unknown one, a status byte.
BuildBytes == {23, 30, 31, 10, 192}

\* The state before build_with_port is called.
BuildInitWith(inbound, configs) ==
    /\ rt_q = <<>>
    /\ bg_q = <<>>
    /\ reqs = <<>>
    /\ reply = <<>>
    /\ served = <<>>
    /\ cancelled = FALSE
    /\ io_pc = "none"
    /\ cur = 0
    /\ pos = 0
    /\ response = <<>>
    /\ read_buf = <<>>
    /\ port = "open"
    /\ write_log = <<>>
    /\ rx_log = <<>>
    /\ record_log = TRUE
    /\ events = <<>>
    /\ xoff = FALSE
    /\ prev_breakin = FALSE
    /\ min_wpm = 0
    /\ pc = [t \in Tasks |-> "idle"]
    /\ op = [t \in Tasks |-> NoOp]
    /\ result = [t \in Tasks |-> NoResult]
    /\ rid = [t \in Tasks |-> 0]
    /\ sub = [t \in Tasks |-> 0]
    /\ saw_xoff = [t \in Tasks |-> FALSE]
    /\ cleared = [t \in Tasks |-> FALSE]
    /\ woken = [t \in Tasks |-> FALSE]
    /\ nread = 0
    /\ budget = [calls |-> 0, inbound |-> inbound, faults |-> MaxFaults]
    /\ \E cfg \in configs :
           builder = [cfg |-> cfg, pc |-> "close", version_byte |-> -1,
                      result |-> "none"]
    /\ keyer = NoKeyer
    /\ subscribers = 0

BuildInit == BuildInitWith(BuildInbound, BuildConfigs)

BuildStep ==
    \/ BuildDefensiveClose
    \/ BuildDrainLeftover
    \/ BuildHostOpen
    \/ BuildVersion
    \/ BuildVersionTimeout
    \/ BuildMode
    \/ BuildLoadDefaults
    \/ BuildClearBuffer
    \/ BuildDrainPostInit
    \/ BuildReassert
    \/ BuildStart

BuildNext ==
    \/ BuildStep
    \/ Subscribe
    \/ IoRead
    \/ \E b \in BuildBytes : queue_read(b)
    \/ PortClose

BuildSpec == BuildInit /\ [][BuildNext]_vars

(***************************************************************************)
(* The cached mode register: a keyer built with the default settings or     *)
(* with contest spacing and auto-space, on which two tasks call             *)
(* set_paddle_mode and load_defaults, while the transport may fail or a     *)
(* reply may time out.                                                      *)
(***************************************************************************)
ModeConfigs ==
    {WinKeyerBuilder_new,
     auto_space(contest_spacing(WinKeyerBuilder_new, TRUE), TRUE)}

\* set_paddle_mode of each mode, and load_defaults with mode register 0x46
\* (paddle echo, serial echo, auto-space).
ModeOps == {Op("set_paddle_mode", <<0>>, 0),
            Op("set_paddle_mode", <<1>>, 0),
            Op("set_paddle_mode", <<2>>, 0),
            Op("set_paddle_mode", <<3>>, 0),
            Op("load_defaults", <<70>>, 0)}

ModeInit ==
    \E cfg \in ModeConfigs : SetupWith(cfg, 23, ModeCalls, 0, MaxFaults, TRUE)

ModeNext ==
    \/ IoRecvRt
    \/ IoRead
    \/ IoWrite
    \/ \E t \in Tasks, o \in ModeOps : Call(t, o)
    \/ \E t \in Tasks : Await(t)
    \/ \E t \in Tasks : ReplyTimeout(t)
    \/ PortClose

ModeSpec == ModeInit /\ [][ModeNext]_vars

(***************************************************************************)
(* The cached speed: a keyer built with the default speed or with speed 28, *)
(* on which two tasks call set_speed (two valid values and an invalid one)  *)
(* and get_speed, while the transport may fail or a reply may time out.     *)
(***************************************************************************)
SpeedConfigs == {WinKeyerBuilder_new, speed(WinKeyerBuilder_new, 28)}

SpeedOps == {Op("set_speed", <<30>>, 0),
             Op("set_speed", <<25>>, 0),
             Op("set_speed", <<4>>, 0),
             Op("get_speed", <<>>, 0)}

SpeedInit ==
    \E cfg \in SpeedConfigs : SetupWith(cfg, 23, SpeedCalls, 0, MaxFaults, TRUE)

SpeedNext ==
    \/ IoRecvRt
    \/ IoRead
    \/ IoWrite
    \/ \E t \in Tasks, o \in SpeedOps : Call(t, o)
    \/ \E t \in Tasks : Await(t)
    \/ \E t \in Tasks : ReplyTimeout(t)
    \/ PortClose

SpeedSpec == SpeedInit /\ [][SpeedNext]_vars

(***************************************************************************)
(* The engine's lifecycle: RT and BG producers and close(), against a       *)
(* transport that may fail or reach end of file, with cancellation and      *)
(* reply deadlines.                                                         *)
(***************************************************************************)
LifeInit == Setup(LifeCalls, 0, MaxFaults, TRUE)

LifeNext ==
    \/ IoStep
    \/ \E t \in Tasks, o \in Ops : Call(t, o)
    \/ \E t \in Tasks : CommandStep(t)
    \/ \E t \in Tasks : CloseStep(t)
    \/ PortClose
    \/ PortEof
    \/ Cancel

LifeSpec == LifeInit /\ [][LifeNext]_vars

(***************************************************************************)
(* Failures while a request is serviced: a Write-and-Read of one response   *)
(* byte, an abort and a message, against a transport that may fail, reach   *)
(* end of file or stay silent past the read deadline.                       *)
(***************************************************************************)
FaultOps == {Op("rt_command_read", <<0, 9>>, 1),
             Op("abort", <<>>, 0),
             Op("send_message", <<99, 113>>, 0)}

\* A response byte (0x55) and a status byte (C0).
FaultBytes == {85, 192}

FaultInit == Setup(FaultCalls, FaultInbound, MaxFaults, TRUE)

FaultNext ==
    \/ IoRecvRt
    \/ IoRecvBg
    \/ IoRead
    \/ IoWrite
    \/ IoReadStep
    \/ \E t \in Tasks, o \in FaultOps : Call(t, o)
    \/ \E t \in Tasks : Send(t)
    \/ \E t \in Tasks : Await(t)
    \/ \E b \in FaultBytes : queue_read(b)
    \/ PortClose
    \/ PortEof

FaultSpec == FaultInit /\ [][FaultNext]_vars

(***************************************************************************)
(* The sidetone volume on a WK2 (version byte 23), a WK3 (30) and a WK3.1   *)
(* (31).                                                                    *)
(***************************************************************************)
VolumeVersions == {23, 30, 31}

VolumeOps == {Op("set_sidetone_volume", <<1>>, 0),
              Op("set_sidetone_volume", <<3>>, 0)}

VolumeInit ==
    \E v \in VolumeVersions :
        SetupWith(WinKeyerBuilder_new, v, VolumeCalls, 0, MaxFaults, TRUE)

VolumeNext ==
    \/ IoRecvRt
    \/ IoWrite
    \/ \E t \in Tasks, o \in VolumeOps : Call(t, o)
    \/ \E t \in Tasks : Await(t)
    \/ \E t \in Tasks : ReplyTimeout(t)

VolumeSpec == VolumeInit /\ [][VolumeNext]_vars

(***************************************************************************)
(* Validation: the range-checked setters at and around their limits, and    *)
(* send_message with a valid text ("cq"), a text with a bracket after a     *)
(* valid character ("c[") and a control character, against a keyer that     *)
(* may assert or clear XOFF.                                                *)
(***************************************************************************)
ValidOps ==
    {Op("set_speed", <<v>>, 0) : v \in {4, 5, 99, 100}}
        \cup {Op("set_weight", <<v>>, 0) : v \in {9, 10, 90, 91}}
        \cup {Op("set_ratio", <<v>>, 0) : v \in {32, 33, 66, 67}}
        \cup {Op("set_sidetone", <<v>>, 0) : v \in {499, 500, 4000, 4001}}
        \cup {Op("send_message", <<99, 113>>, 0),
              Op("send_message", <<99, 91>>, 0),
              Op("send_message", <<7>>, 0)}

ValidInit == Setup(ValidCalls, ValidInbound, MaxFaults, TRUE)

ValidNext ==
    \/ IoRecvRt
    \/ IoRecvBg
    \/ IoRead
    \/ IoWrite
    \/ \E t \in Tasks, o \in ValidOps : Call(t, o)
    \/ \E t \in Tasks : GateStep(t)
    \/ \E t \in Tasks : Send(t)
    \/ \E t \in Tasks : Await(t)
    \/ \E b \in GateBytes : queue_read(b)

ValidSpec == ValidInit /\ [][ValidNext]_vars

(***************************************************************************)
(* The wire: where the bytes of each request are in the transport's log.    *)
(***************************************************************************)
WirePos(id) == {i \in 1..Len(write_log) : write_log[i].id = id}

OnWire(id) == WirePos(id) # {}

FirstPos(id) == CHOOSE i \in WirePos(id) : \A j \in WirePos(id) : i <= j

LastPos(id) == CHOOSE i \in WirePos(id) : \A j \in WirePos(id) : j <= i

\* Every byte of the request's payload has been written.
Complete(id) == Cardinality(WirePos(id)) = Len(reqs[id].data)

\* The whole of request a is on the wire before the first byte of request b.
WrittenBefore(a, b) == Complete(a) /\ LastPos(a) < FirstPos(b)

\* The entry of the dequeued-requests history for request id.
ServedAt(id) == CHOOSE i \in 1..Len(served) : served[i].id = id

WasServed(id) == \E i \in 1..Len(served) : served[i].id = id

IsAbort(id) == reqs[id].chan = "rt" /\ reqs[id].data = clear_buffer

IsBg(id) == reqs[id].chan = "bg"

(***************************************************************************)
(* C1: RT before BG.                                                        *)
(***************************************************************************)
\* C1: at every loop turn at which the engine took a BG request, no RT request
\* was queued; and an RT abort (0A) is wholly on the wire before the first
\* byte of any BG text the engine dequeued after the abort was enqueued (the
\* text was still queued then, or was submitted later).
C1_RtBeforeBg ==
    /\ \A i \in 1..Len(served) : IsBg(served[i].id) => served[i].rt_len = 0
    /\ \A a, b \in 1..Len(reqs) :
           (/\ IsAbort(a)
            /\ IsBg(b)
            /\ OnWire(b)
            /\ served[ServedAt(b)].seen >= a)
           => WrittenBefore(a, b)

\* An abort enqueued while a BG text was queued is on the wire before the text.
C1_Witness ==
    \E a, b \in 1..Len(reqs) :
        /\ IsAbort(a) /\ IsBg(b) /\ b < a
        /\ Complete(b)
        /\ WrittenBefore(a, b)

(***************************************************************************)
(* C2: the inbound stream under RT saturation.                              *)
(***************************************************************************)
\* C2 as stated: every byte the transport has made available is eventually
\* read by the engine, whatever the producers do.
C2_NoStarvation == (read_buf # <<>>) ~> (read_buf = <<>>)

\* Every byte read so far has its event on the bus.
AllPublished == \A k \in 1..nread : \E i \in 1..Len(events) : events[i].src = k

\* C2 amended: if from some point on both queues stay empty, every byte the
\* transport has made available is eventually read and published as its event
\* (the transport stays open and the engine is not cancelled).
C2_ReadOnceQueuesDrain ==
    (<>[](rt_q = <<>> /\ bg_q = <<>>))
        => ((read_buf # <<>>) ~> (read_buf = <<>> /\ AllPublished))

\* A byte was read and published after a request had been answered.
C2_Witness ==
    /\ nread > 0
    /\ events[Len(events)].kind = "StatusChanged"
    /\ \E t \in Tasks : result[t].res = "Ok"

(***************************************************************************)
(* C3: writes are atomic with respect to each other.                        *)
(***************************************************************************)
\* The bytes of request id on the wire, in wire order.
WireBytes(id) ==
    LET mine == SelectSeq(write_log, LAMBDA e : e.id = id)
    IN  [i \in 1..Len(mine) |-> mine[i].b]

\* C3: the bytes of one request are contiguous on the wire, no byte of any
\* other request lies between two of them, and they are the request's
\* payload in order: the whole payload, unless the engine is still writing
\* the request or the transport has failed; a request answered Ok is whole.
C3_WholePayloads ==
    /\ \A i, j \in 1..Len(write_log) :
           (i < j /\ write_log[i].id = write_log[j].id)
           => \A k \in i..j : write_log[k].id = write_log[i].id
    /\ \A id \in 1..Len(reqs) :
           /\ WireBytes(id) = Prefix(reqs[id].data, Len(WireBytes(id)))
           /\ (OnWire(id) /\ ~Complete(id)) => (cur = id \/ port = "closed")
           /\ reply[id].res = "Ok" => Complete(id)

\* An RT payload and a BG payload of two bytes each, of different tasks, are
\* both on the wire.
C3_Witness ==
    \E a, b \in 1..Len(reqs) :
        /\ reqs[a].chan = "rt" /\ IsBg(b)
        /\ reqs[a].task # reqs[b].task
        /\ Len(reqs[a].data) = 2 /\ Len(reqs[b].data) = 2
        /\ Complete(a) /\ Complete(b)

(***************************************************************************)
(* C4: FIFO order on each channel.                                          *)
(***************************************************************************)
SameChannel(a, b) == reqs[a].chan = reqs[b].chan

\* C4: of two requests on the same channel the one sent first (the lower
\* id) is dequeued first and is wholly on the wire before the first byte of
\* the other; nothing sent after a Shutdown on that channel is written.
C4_Fifo ==
    /\ \A i, j \in 1..Len(served) :
           (i < j /\ SameChannel(served[i].id, served[j].id))
           => served[i].id < served[j].id
    /\ \A a, b \in 1..Len(reqs) :
           (a < b /\ SameChannel(a, b) /\ OnWire(b))
           => /\ reqs[a].kind # "Shutdown"
              /\ WrittenBefore(a, b)

\* Two RT requests of different tasks are both on the wire.
C4_Witness ==
    \E a, b \in 1..Len(reqs) :
        /\ a < b
        /\ reqs[a].chan = "rt" /\ reqs[b].chan = "rt"
        /\ reqs[a].task # reqs[b].task
        /\ Complete(a) /\ Complete(b) /\ OnWire(a) /\ OnWire(b)

(***************************************************************************)
(* C5: cancellation.                                                        *)
(***************************************************************************)
Queued == {rt_q[i] : i \in 1..Len(rt_q)} \cup {bg_q[i] : i \in 1..Len(bg_q)}

HasEvent(kind) == \E i \in 1..Len(events) : events[i].kind = kind

\* No queued request is serviced in this step: nothing is dequeued, written,
\* published, or answered.
NothingServiced ==
    /\ served' = served
    /\ write_log' = write_log
    /\ events' = events
    /\ \A id \in Queued : reply'[id].res \in {"none", "dropped"}

\* C5: from a loop turn at which the cancellation flag is raised the engine
\* services no queued request and its only step is to exit; once it has
\* exited nothing is written or published; a request dropped from a queue
\* has none of its bytes on the wire and no reply.
C5_CancelExits ==
    /\ [][(cancelled /\ io_pc = "select")
            => (NothingServiced /\ io_pc' \in {"select", "exited"})]_vars
    /\ [][io_pc = "exited"
            => (io_pc' = "exited" /\ write_log' = write_log /\ events' = events)]_vars
    /\ [](\A id \in 1..Len(reqs) : reply[id].res = "dropped" => ~OnWire(id))

\* The engine has exited on cancellation (no Shutdown was served and no
\* Disconnected published) and dropped a queued Write request.
C5_Witness ==
    /\ io_pc = "exited"
    /\ cancelled
    /\ ~HasEvent("Disconnected")
    /\ \A i \in 1..Len(served) : reqs[served[i].id].kind # "Shutdown"
    /\ \E id \in 1..Len(reqs) :
           /\ reqs[id].kind = "Write"
           /\ reply[id].res = "dropped"
           /\ ~OnWire(id)

(***************************************************************************)
(* C6, C7: the XOFF gate.                                                   *)
(***************************************************************************)
\* The call of task t is inside wait_xoff.
InGate(t) == pc[t] \in {"subscribe", "loop", "recv"}

Finished(t, res) == pc[t] = "idle" /\ result[t].res = res

\* The call of task t found the flag set and no Status with xoff=0 has been
\* processed since.
FlagStayedSet(t) == saw_xoff[t] /\ ~cleared[t]

\* C6: a send_message("cq") that found the xoff flag set sends no request
\* and stays in the gate for as long as no Status byte with xoff=0 is
\* processed; once one is processed while it waits, the deadline cannot
\* win and the call does not fail with BufferFull; the request it then
\* sends is a BG request carrying "CQ", and when the call returns Ok those
\* bytes are on the wire.
C6_SuspendedUntilCleared ==
    \A t \in Tasks :
        (op[t].name = "send_message" /\ saw_xoff[t]) =>
            /\ FlagStayedSet(t) =>
                   (rid[t] = 0 /\ (InGate(t) \/ Finished(t, "BufferFull")))
            /\ (woken[t] /\ pc[t] = "recv") => sub[t] <= Len(events)
            /\ woken[t] => result[t].res # "BufferFull"
            /\ rid[t] # 0 =>
                   (IsBg(rid[t]) /\ reqs[rid[t]].data = <<67, 81>>)
            /\ Finished(t, "Ok") =>
                   (cleared[t] /\ WireBytes(rid[t]) = <<67, 81>>)

\* A send_message that found the flag set was woken by a Status with xoff=0
\* and has written "CQ".
C6_Witness ==
    \E t \in Tasks :
        /\ op[t].name = "send_message"
        /\ saw_xoff[t] /\ woken[t]
        /\ Finished(t, "Ok")
        /\ WireBytes(rid[t]) = <<67, 81>>

\* C7: a gated BG operation that found the xoff flag set, with no Status
\* byte with xoff=0 processed since, is still in the gate or has failed
\* with BufferFull, and has sent no request (so none of its bytes is queued
\* or written); BufferFull is returned in no other case.
C7_BufferFullAtDeadline ==
    \A t \in Tasks :
        /\ (calls_wait_xoff(op[t]) /\ FlagStayedSet(t)) =>
               /\ InGate(t) \/ Finished(t, "BufferFull")
               /\ rid[t] = 0
               /\ \A id \in (Queued \cup {cur}) \ {0} : reqs[id].task # t
        /\ result[t].res = "BufferFull" => (saw_xoff[t] /\ rid[t] = 0)

\* A send_prosign failed with BufferFull at the deadline.
C7_Witness ==
    \E t \in Tasks :
        /\ op[t].name = "send_prosign"
        /\ FlagStayedSet(t)
        /\ Finished(t, "BufferFull")
        /\ rid[t] = 0

(***************************************************************************)
(* C8, C9: Write-and-Read.                                                  *)
(***************************************************************************)
\* The inbound bytes (positions in arrival order) the engine read between
\* dequeuing request id and answering it.
WaitFrom(id) == served[ServedAt(id)].nread

WaitPos(id) == (WaitFrom(id) + 1)..reply[id].upto

Arrived(from, to) == SubSeq(rx_log, from + 1, to)

EventsOf(k) == SelectSeq(events, LAMBDA e : e.src = k)

\* The one event a high-bit byte at position k is published as.
PublishedAsItsEvent(k) ==
    LET es == SelectSeq(EventsOf(k), LAMBDA e : e.kind # "PaddleBreakIn")
        b  == rx_log[k]
    IN  /\ Len(es) = 1
        /\ IF b >= 192
           THEN /\ es[1].kind = "StatusChanged"
                /\ es[1].status.xoff = (b % 2 = 1)
                /\ es[1].status.breakin = ((b \div 2) % 2 = 1)
           ELSE /\ es[1].kind = "SpeedPotChanged"
                /\ es[1].n = DEFAULT_MIN_WPM + (b % 64)

\* C8: the Ok reply of an Ascii Write-and-Read with expected = n holds
\* exactly n bytes, all below 0x80: the low bytes that arrived during the
\* wait, in arrival order; every high-bit byte that arrived during the wait
\* is left out of the reply and was published as its StatusChanged or
\* SpeedPotChanged event, and no low byte of the wait was published.
C8_AsciiReply ==
    \A id \in 1..Len(reqs) :
        (/\ reqs[id].kind = "WriteAndRead"
         /\ reqs[id].framing = "Ascii"
         /\ reply[id].res = "Ok")
        => /\ Len(reply[id].data) = reqs[id].expected
           /\ \A i \in 1..Len(reply[id].data) : reply[id].data[i] < 128
           /\ reply[id].data =
                  SelectSeq(Arrived(WaitFrom(id), reply[id].upto),
                            LAMBDA b : b < 128)
           /\ \A k \in WaitPos(id) :
                  IF rx_log[k] >= 128
                  THEN PublishedAsItsEvent(k)
                  ELSE EventsOf(k) = <<>>

\* An Ascii read of two bytes got them with a high-bit byte between them.
C8_Witness ==
    \E id \in 1..Len(reqs) :
        /\ reqs[id].framing = "Ascii"
        /\ reqs[id].expected = 2
        /\ reply[id].res = "Ok"
        /\ Arrived(WaitFrom(id), reply[id].upto) = <<85, 128, 85>>
        /\ reply[id].data = <<85, 85>>

StatusPos == {events[i].src : i \in {j \in 1..Len(events) :
                                      events[j].kind = "StatusChanged"}}

BreakinBit(k) == (rx_log[k] \div 2) % 2 = 1

\* The Status byte at position k has breakin=1 and the Status byte before it
\* (if any) has breakin=0.
RisingEdge(k) ==
    LET before == {j \in StatusPos : j < k}
    IN  /\ BreakinBit(k)
        /\ before # {} =>
               ~BreakinBit(CHOOSE j \in before : \A i \in before : i <= j)

\* The positions the engine took as the positional reply of an echo test.
TakenPositionally ==
    {reply[id].upto : id \in {i \in 1..Len(reqs) :
                                /\ reqs[i].framing = "Binary"
                                /\ reply[i].res = "Ok"}}

\* C10: every Status byte the engine classified is published as one
\* StatusChanged carrying its breakin bit; a PaddleBreakIn is published
\* exactly for the Status bytes with breakin=1 whose previous Status byte
\* had breakin=0 (initially 0), immediately before that byte's
\* StatusChanged.
C10_BreakinEdges ==
    /\ \A k \in 1..nread :
           (rx_log[k] >= 192 /\ k \notin TakenPositionally) => k \in StatusPos
    /\ \A i \in 1..Len(events) :
           /\ events[i].kind = "StatusChanged" =>
                  /\ rx_log[events[i].src] >= 192
                  /\ events[i].status.breakin = BreakinBit(events[i].src)
                  /\ RisingEdge(events[i].src) =>
                         /\ events[i - 1].kind = "PaddleBreakIn"
                         /\ events[i - 1].src = events[i].src
           /\ events[i].kind = "PaddleBreakIn" =>
                  /\ i < Len(events)
                  /\ events[i + 1].kind = "StatusChanged"
                  /\ events[i + 1].src = events[i].src
                  /\ RisingEdge(events[i].src)
    /\ \A k \in StatusPos : Len(EventsOf(k)) = IF RisingEdge(k) THEN 2 ELSE 1

\* Inbound C0 C2 C2: StatusChanged{breakin=false}, PaddleBreakIn,
\* StatusChanged{breakin=true}, and only StatusChanged for the second C2.
C10_Witness ==
    /\ rx_log = <<192, 194, 194>>
    /\ Len(events) = 4
    /\ events[1].kind = "StatusChanged" /\ ~events[1].status.breakin
    /\ events[2].kind = "PaddleBreakIn"
    /\ events[3].kind = "StatusChanged" /\ events[3].status.breakin
    /\ events[4].kind = "StatusChanged" /\ events[4].status.breakin

(***************************************************************************)
(* C11: the shared xoff flag.                                               *)
(***************************************************************************)
\* The positions of the inbound Status bytes the classifier has processed.
ProcessedStatus ==
    {k \in 1..nread : rx_log[k] >= 192 /\ k \notin TakenPositionally}

\* Bit 0 of the most recently processed Status byte, FALSE if there is none.
LastStatusXoff ==
    IF ProcessedStatus = {} THEN FALSE
    ELSE LET k == CHOOSE j \in ProcessedStatus :
                      \A i \in ProcessedStatus : i <= j
         IN  rx_log[k] % 2 = 1

HandshakeWire ==
    LET w == SelectSeq(write_log, LAMBDA e : e.id = 0)
    IN  [i \in 1..Len(w) |-> w[i].b]

Built == builder.pc = "done"

BuildFailed(res) == builder.pc = "failed" /\ builder.result = res

ModeCommandsAt ==
    {i \in 1..(Len(HandshakeWire) - 1) :
        HandshakeWire[i] = 0 /\ HandshakeWire[i + 1] \in {11, 19}}

KnownVersions == (20..23) \cup {30, 31}

\* C14: a build that failed with Protocol read a version byte outside
\* {20..23, 30, 31}, and every version byte outside that set fails it so;
\* a build that failed with Timeout read no version byte; in both cases no
\* engine was spawned, no keyer handle exists and nothing was written after
\* 00 03 00 02.
C14_VersionFailure ==
    /\ BuildFailed("Protocol") =>
           /\ builder.version_byte \notin KnownVersions
           /\ builder.version_byte = rx_log[nread]
    /\ BuildFailed("Timeout") => builder.version_byte = -1
    /\ (BuildFailed("Protocol") \/ BuildFailed("Timeout")) =>
           /\ HandshakeWire = <<0, 3, 0, 2>>
           /\ io_pc = "none"
           /\ keyer = NoKeyer
    /\ builder.pc \in {"mode", "defaults", "clear", "drain_post", "reassert", "start", "done"} =>
           builder.version_byte \in KnownVersions
    /\ io_pc # "none" => Built

\* The unknown version byte 10 arrived after the drain: Protocol.
C14_Witness ==
    /\ BuildFailed("Protocol")
    /\ builder.version_byte = 10
    /\ HandshakeWire = <<0, 3, 0, 2>>

\* No byte arrived within the version deadline: Timeout.
C14_TimeoutReached ==
    /\ BuildFailed("Timeout")
    /\ HandshakeWire = <<0, 3, 0, 2>>

\* C15: after a successful handshake the bus holds exactly one Connected
\* event, ahead of every event derived from an inbound byte; after a failed
\* handshake it holds none.
C15_OneConnected ==
    /\ Built =>
           /\ events # <<>>
           /\ events[1].kind = "Connected"
           /\ \A i \in 2..Len(events) : events[i].kind # "Connected"
    /\ builder.pc = "failed" => ~HasEvent("Connected")

\* What the code does: no receiver is alive when build_with_port sends
\* Connected, so the bus never holds a Connected event.
C15_ConnectedIsLost == ~HasEvent("Connected")

\* A subscriber of a built keyer has received a StatusChanged and the bus
\* holds no Connected.
C15_Witness ==
    /\ Built
    /\ subscribers = 1
    /\ HasEvent("StatusChanged")

(***************************************************************************)
(* C16..C19: the cached mode register and the cached speed.                 *)
(***************************************************************************)
\* The call of task t returns res in this step, after its command.
Returns(t, name, res) ==
    /\ pc[t] = "await"
    /\ op[t].name = name
    /\ pc'[t] = "idle"
    /\ result'[t].res = res

\* C16: after every successful load_defaults(d) the cached mode register
\* is d.mode_register, so that a later set_paddle_mode builds its byte from
\* the flags of d and not from the builder's.
C16_CacheFollowsDefaults ==
    [][\A t \in Tasks :
          Returns(t, "load_defaults", "Ok") =>
              keyer'.mode_register = op[t].arg[1]]_vars

\* A load_defaults(0x46) returned Ok while the cache still holds the
\* builder's byte with contest spacing (0x47).
C16_StaleCache ==
    \E t \in Tasks :
        /\ Finished(t, "Ok")
        /\ op[t].name = "load_defaults"
        /\ keyer.mode_register = 71

\* Bits 5-4 of the mode register for the mode of a set_paddle_mode call.
ModeField(k) ==
    CASE k = 0 -> 16
      [] k = 1 -> 0
      [] k = 2 -> 32
      [] OTHER -> 48

\* Task t calls set_paddle_mode in this step and its command is queued.
PaddleCall(t) ==
    /\ pc[t] = "idle"
    /\ pc'[t] = "await"
    /\ op'[t].name = "set_paddle_mode"

\* The requests that carry a mode-register command.
ModeWrites == {id \in 1..Len(reqs) : reqs[id].data[1] = 14}

\* C17: set_paddle_mode(m) queues 0E b, where bits 5-4 of b encode m
\* (IambicB 00, IambicA 10, Ultimatic 20, Bug 30) and every other bit of b
\* is the bit of the cached mode register; the bytes written for it are
\* those two and no others; bits 0 and 1 of b are set whenever they are set
\* in the cache, as they are after a handshake with contest spacing and
\* auto-space.
C17_PaddleModeKeepsFlags ==
    /\ [](\A id \in ModeWrites :
             /\ Len(reqs[id].data) = 2
             /\ WireBytes(id) = Prefix(reqs[id].data, Len(WireBytes(id))))
    /\ [][\A t \in Tasks :
            PaddleCall(t) =>
                LET d == reqs'[rid'[t]].data
                IN  /\ d[1] = 14
                    /\ Len(d) = 2
                    /\ d[2] \in 0..255
                    /\ (d[2] \div 16) % 4 = ModeField(op'[t].arg[1]) \div 16
                    /\ \A i \in {0, 1, 2, 3, 6, 7} :
                           Bit(d[2], i) = Bit(keyer.mode_register, i)]_vars

\* After a handshake with contest spacing and auto-space and no other call,
\* set_paddle_mode(Ultimatic) returned Ok and the wire carries 0E 67.
C17_Witness ==
    /\ BitAnd(builder.cfg.mode_flags, 3) = 3
    /\ Len(reqs) = 1
    /\ \E t \in Tasks :
           /\ Finished(t, "Ok")
           /\ op[t] = Op("set_paddle_mode", <<2>>, 0)
           /\ WireBytes(1) = <<14, 103>>
           /\ keyer.mode_register = 103

\* The set_speed commands the engine answered Ok.
SpeedAnswered ==
    {id \in 1..Len(reqs) : reqs[id].data[1] = 2 /\ reply[id].res = "Ok"}

\* A call returns in the step it is made (validation error, get_speed, or
\* an engine that is gone).
ImmediateReturn ==
    /\ budget'.calls < budget.calls
    /\ pc' = pc

\* One step keeps the cached speed to the successful set_speed calls.
SpeedStep ==
    /\ \A t \in Tasks :
           Returns(t, "set_speed", "Ok") => keyer'.speed = op[t].arg[1]
    /\ (keyer'.speed # keyer.speed =>
           \E t \in Tasks : Returns(t, "set_speed", "Ok"))
    /\ (ImmediateReturn =>
           \E t \in Tasks :
               /\ pc[t] = "idle"
               /\ \A u \in Tasks \ {t} :
                      op'[u] = op[u] /\ result'[u] = result[u]
               /\ (op'[t].name = "get_speed" =>
                      result'[t] = Result("Ok", <<keyer.speed>>)))

\* C19: the cached speed is the builder's speed until a set_speed succeeds;
\* a set_speed that returns Ok leaves its argument in the cache, and nothing
\* else changes the cache: not a set_speed that fails with InvalidParameter,
\* Io, NotConnected or Timeout; get_speed returns the cached value.
C19_SpeedCache ==
    /\ [](SpeedAnswered = {} => keyer.speed = builder.cfg.speed_wpm)
    /\ [][SpeedStep]_vars

\* Built with speed 28: set_speed(30) returned Ok, a set_speed(25) failed
\* on the closed transport, and get_speed then returned 30.
C19_Witness ==
    /\ builder.cfg.speed_wpm = 28
    /\ \E t, u \in Tasks :
           /\ t # u
           /\ Finished(t, "Io")
           /\ op[t] = Op("set_speed", <<25>>, 0)
           /\ Finished(u, "Ok")
           /\ op[u].name = "get_speed"
           /\ result[u].data = <<30>>
    /\ keyer.speed = 30

(***************************************************************************)
(* C18, C20: validation comes first.                                        *)
(***************************************************************************)
\* The setters with a range, and the range of each.
Ranged == {"set_speed", "set_weight", "set_ratio", "set_sidetone"}

RangeOf(name) ==
    CASE name = "set_speed"  -> 5..99
      [] name = "set_weight" -> 10..90
      [] name = "set_ratio"  -> 33..66
      [] OTHER               -> 500..4000

\* A call that returns in the step it is made queues and writes nothing.
ReturnsUntouched ==
    ImmediateReturn =>
        /\ reqs' = reqs
        /\ rt_q' = rt_q
        /\ bg_q' = bg_q
        /\ write_log' = write_log

\* The value bytes of the set_speed, set_weight and set_ratio commands.
InRangeOnWire ==
    \A id \in 1..Len(reqs) :
        LET d == reqs[id].data
        IN  /\ d[1] = 2  => d[2] \in 5..99
            /\ d[1] = 3  => d[2] \in 10..90
            /\ d[1] = 23 => d[2] \in 33..66

\* C18: a ranged setter whose value lies outside its range (set_speed
\* 5..=99, set_weight 10..=90, set_ratio 33..=66, set_sidetone 500..=4000)
\* returns InvalidParameter in the step it is called, with no request
\* queued and no byte written; a value inside the range is never rejected
\* and its command is queued.
C18_RangeBeforeQueue ==
    /\ [](\A t \in Tasks :
             op[t].name \in Ranged =>
                 IF op[t].arg[1] \in RangeOf(op[t].name)
                 THEN /\ result[t].res # "InvalidParameter"
                      /\ rid[t] \in 1..Len(reqs)
                      /\ reqs[rid[t]].task = t
                 ELSE /\ Finished(t, "InvalidParameter")
                      /\ rid[t] = 0)
    /\ []InRangeOnWire
    /\ [][ReturnsUntouched]_vars

\* set_sidetone(4000) returned Ok and set_sidetone(4001) was rejected: one
\* request, whose two bytes are the only ones written.
C18_Witness ==
    \E t, u \in Tasks :
        /\ Finished(t, "Ok")
        /\ op[t] = Op("set_sidetone", <<4000>>, 0)
        /\ Finished(u, "InvalidParameter")
        /\ op[u] = Op("set_sidetone", <<4001>>, 0)
        /\ Len(reqs) = 1
        /\ Len(write_log) = 2

\* The characters send_message accepts: A-Z, a-z, 0-9, space and
\* . , ? / ! = + - : ; ' " ( ) @ & _
CwChars ==
    (65..90) \cup (97..122) \cup (48..57)
        \cup {32, 46, 44, 63, 47, 33, 61, 43, 45, 58, 59, 39, 34, 40, 41,
              64, 38, 95}

BadText(o) ==
    o.name = "send_message" /\ \E i \in 1..Len(o.arg) : o.arg[i] \notin CwChars

\* C20: a send_message whose text has a character outside the accepted set
\* returns InvalidParameter in the step it is called, whatever the xoff
\* flag: it never enters the gate, queues no request, and no byte of its
\* text reaches the wire; only accepted characters are ever written for a
\* message.
C20_TextBeforeGate ==
    /\ [](\A t \in Tasks :
             BadText(op[t]) => Finished(t, "InvalidParameter") /\ rid[t] = 0)
    /\ [](\A id \in 1..Len(reqs) :
             reqs[id].chan = "bg" =>
                 \A i \in 1..Len(reqs[id].data) : reqs[id].data[i] \in CwChars)
    /\ [][ReturnsUntouched]_vars

\* With xoff asserted, send_message("c[") was rejected at once and nothing
\* was written, while the send_message("cq") of the other task waits in the
\* gate.
C20_Witness ==
    /\ xoff
    /\ write_log = <<>>
    /\ reqs = <<>>
    /\ \E t, u \in Tasks :
           /\ Finished(t, "InvalidParameter")
           /\ op[t] = Op("send_message", <<99, 91>>, 0)
           /\ op[u] = Op("send_message", <<99, 113>>, 0)
           /\ InGate(u)

(***************************************************************************)
(* C21: the sidetone volume needs a WK3.                                    *)
(***************************************************************************)
\* The requests that carry the sidetone-volume command 00 19 v.
VolumeWrites ==
    {id \in 1..Len(reqs) :
        Len(reqs[id].data) = 3 /\ reqs[id].data[1] = 0 /\ reqs[id].data[2] = 25}

\* C21: on a Wk2 set_sidetone_volume fails with Unsupported and nothing is
\* queued or written; on a Wk3 or Wk31 it queues 00 19 v on the RT channel.
C21_VolumeNeedsWk3 ==
    /\ builder.version_byte \in 20..23 =>
           /\ VolumeWrites = {}
           /\ \A t \in Tasks :
                  op[t].name = "set_sidetone_volume" => Finished(t, "Unsupported")
    /\ builder.version_byte \in {30, 31} =>
           \A t \in Tasks :
               op[t].name = "set_sidetone_volume" /\ rid[t] # 0 =>
                   /\ reqs[rid[t]].data = <<0, 25, op[t].arg[1]>>
                   /\ reqs[rid[t]].chan = "rt"

\* On a WK2 set_sidetone_volume(3) returned Ok and 00 19 03 is on the wire.
C21_WrittenOnWk2 ==
    /\ builder.version_byte = 23
    /\ \E t \in Tasks :
           /\ Finished(t, "Ok")
           /\ op[t] = Op("set_sidetone_volume", <<3>>, 0)
           /\ WireBytes(rid[t]) = <<0, 25, 3>>

(***************************************************************************)
(* C22..C25: engine failures and close().                                   *)
(***************************************************************************)
\* The engine has failed: a request was answered Io, or Disconnected was
\* published.
EngineFailed ==
    \/ \E id \in 1..Len(reply) : reply[id].res = "Io"
    \/ HasEvent("Disconnected")

\* The requests queued in this step.
NewRequests == {id \in 1..Len(reqs') : id > Len(reqs)}

\* A call made in this step that does not return in it.
GoesOn(t) == pc[t] = "idle" /\ pc'[t] # "idle"

\* C22: once the engine has failed, a call made afterwards that needs the
\* engine queues nothing and returns NotConnected at once (close() is best
\* effort and excepted; a gated call may still pass through its gate).
C22_NotConnectedAfterFailure ==
    [][(EngineFailed /\ budget'.calls < budget.calls) =>
          /\ \A id \in NewRequests : reqs'[id].data = admin_host_close
          /\ \A t \in Tasks :
                 GoesOn(t) => op'[t].name \in GatedOps \cup {"close"}
          /\ \A t \in Tasks :
                 (pc[t] = "idle" /\ result'[t] # result[t]
                     /\ op'[t].name # "close")
                     => result'[t].res \in {"NotConnected", "pending"}]_vars

\* After a write error answered with Io, an abort of the other task was
\* queued, served, and answered Io as well.
C22_IoAfterFailure ==
    \E t, u \in Tasks :
        /\ t # u
        /\ Finished(t, "Io") /\ Finished(u, "Io")
        /\ op[t].name = "abort" /\ op[u].name = "abort"
        /\ rid[t] < rid[u]
        /\ served[ServedAt(rid[u])].seen = rid[u]
        /\ reply[rid[t]].upto >= 0
        /\ io_pc = "select"

\* The host-close commands, in the order they were queued.
CloseWrites == {id \in 1..Len(reqs) : reqs[id].data = admin_host_close}

FirstClose == CHOOSE id \in CloseWrites : \A j \in CloseWrites : id <= j

\* A close() has returned.
CloseReturned ==
    \E t \in Tasks : op[t].name = "close" /\ pc[t] = "idle"

\* close() returns Ok whatever the engine's state.
CloseAlwaysOk ==
    \A t \in Tasks :
        op[t].name = "close" /\ pc[t] = "idle" => result[t].res = "Ok"

\* Once a close() has returned, the bytes written for the first close end
\* the wire (both bytes 00 03, unless the transport failed under them), and
\* no later close has a byte on the wire.
CloseEndsWire ==
    (CloseReturned /\ CloseWrites # {}) =>
        /\ OnWire(FirstClose) => LastPos(FirstClose) = Len(write_log)
        /\ reply[FirstClose].res = "Ok" => Complete(FirstClose)
        /\ \A id \in CloseWrites \ {FirstClose} : ~OnWire(id)

\* C23 as stated: close() returns Ok in every engine state; the first close
\* on a running engine writes 00 03 as the last bytes on the wire, and a
\* later close writes no byte.
C23_CloseLastOnWire == CloseAlwaysOk /\ CloseEndsWire

\* The engine took up no other request after the first close was called:
\* every other request it dequeued, it dequeued before.
Undisturbed ==
    \A id \in 1..Len(reqs) :
        (id # FirstClose /\ WasServed(id) /\ reqs[id].kind # "Shutdown")
            => served[ServedAt(id)].seen < FirstClose

\* The engine has exited or has been told to.
ShutDown == io_pc = "exited" \/ cancelled

\* C23, amended: close() returns Ok in every engine state, and when it has
\* returned the engine has exited or its cancellation is raised, after
\* which it takes up no request: a close called after another has returned
\* writes no byte.  The first close writes 00 03 as the last bytes on the
\* wire provided the engine takes up no other request once that close is
\* called; a request still queued then, or queued by a concurrent caller
\* before the Shutdown request, is written after the 00 03.
C23_CloseIdempotent ==
    /\ []CloseAlwaysOk
    /\ [](CloseReturned => ShutDown)
    /\ [][ShutDown => served' = served]_vars
    /\ []((CloseReturned /\ CloseWrites # {} /\ Undisturbed) =>
             /\ OnWire(FirstClose) => LastPos(FirstClose) = Len(write_log)
             /\ reply[FirstClose].res = "Ok" => Complete(FirstClose))

\* Both calls were close(): the first wrote 00 03 and shut the engine down,
\* the second found the engine gone and wrote nothing; both returned Ok.
C23_Witness ==
    /\ Cardinality(CloseWrites) = 1
    /\ Len(reqs) = 2
    /\ Undisturbed
    /\ WireBytes(FirstClose) = admin_host_close
    /\ io_pc = "exited"
    /\ budget.calls = 0
    /\ \A t \in Tasks : op[t].name \in {"close", "none"}
    /\ \E t \in Tasks : Finished(t, "Ok") /\ op[t].name = "close"

\* The engine exits in this step.
ExitStep == io_pc # "exited" /\ io_pc' = "exited"

\* The exit is voluntary: cancellation is raised, or the step dequeues a
\* Shutdown request.
Voluntary == cancelled \/ Len(served') > Len(served)

\* C24: a step in which the engine exits on transport EOF or a transport
\* error publishes Disconnected; a step in which it exits on a Shutdown
\* request or on cancellation publishes nothing.
C24_DisconnectedOnInvoluntaryExit ==
    [][ExitStep =>
          IF Voluntary
          THEN events' = events
          ELSE /\ port \in {"closed", "eof"}
               /\ events' = Append(events, Disconnected)]_vars

\* The engine has exited on EOF, and Disconnected is the last event.
C24_Witness ==
    /\ io_pc = "exited"
    /\ ~cancelled
    /\ port = "eof"
    /\ \A id \in 1..Len(reqs) : reqs[id].kind # "Shutdown"
    /\ events # <<>>
    /\ events[Len(events)] = Disconnected

(***************************************************************************)
(* C29: Shutdown.                                                           *)
(***************************************************************************)
\* The request the engine dequeues in this step, if it is a Shutdown.
ShutdownTaken(id) ==
    /\ Len(served') = Len(served) + 1
    /\ served'[Len(served')].id = id
    /\ reqs[id].kind = "Shutdown"

\* One step of the engine and the callers around a Shutdown.
ShutdownStep ==
    /\ \A id \in 1..Len(reqs) :
           ShutdownTaken(id) =>
               /\ io_pc' = "exited"
               /\ reply'[id].res = "Ok"
               /\ write_log' = write_log
               /\ \A q \in Queued \ {id} : reply'[q].res = "dropped"
    /\ io_pc = "exited" =>
           /\ reqs' = reqs
           /\ write_log' = write_log
           /\ \A t \in Tasks :
                  (pc[t] \in {"idle", "send"} /\ pc'[t] = "idle"
                      /\ result'[t] # result[t] /\ op'[t].name # "close")
                      => result'[t].res = "NotConnected"

\* C29: the step that dequeues a Shutdown request answers it Ok, ends the
\* engine and writes nothing; every request still queued on either channel
\* has its reply dropped, is never written, and its caller gets
\* NotConnected (or has already given up with Timeout), never Ok; once the
\* engine has exited nothing is queued or written and a call fails with
\* NotConnected when it tries to send.
C29_ShutdownDropsQueued ==
    /\ [](\A id \in 1..Len(reqs) :
             reply[id].res = "dropped" =>
                 /\ ~OnWire(id)
                 /\ io_pc = "exited"
                 /\ \A t \in Tasks :
                        (rid[t] = id /\ pc[t] = "idle" /\ op[t].name # "close")
                            => result[t].res \in {"NotConnected", "Timeout"})
    /\ [][ShutdownStep]_vars

\* A Shutdown was answered Ok with a request queued behind it: that request
\* was dropped and never written and its caller got NotConnected.
C29_Witness ==
    \E sid, id \in 1..Len(reqs) :
        /\ reqs[sid].kind = "Shutdown"
        /\ reply[sid].res = "Ok"
        /\ sid < id
        /\ reply[id].res = "dropped"
        /\ ~OnWire(id)
        /\ \E t \in Tasks :
               /\ rid[t] = id
               /\ Finished(t, "NotConnected")

(***************************************************************************)
(* C25, C30: failures while a request is serviced.                          *)
(***************************************************************************)
\* The request id is answered with res in this step.
Answered(id, res) == reply[id].res = "none" /\ reply'[id].res = res

\* C25: every request the engine answers with Io (a write error, or EOF or
\* a read error during a Write-and-Read) has Disconnected published in the
\* same step.
C25_FailureReportedTwice ==
    [][\A id \in 1..Len(reqs) :
          Answered(id, "Io") => events' = Append(events, Disconnected)]_vars

\* A Write-and-Read was answered Io and no Disconnected is on the bus.
C25_SilentReadFailure ==
    \E id \in 1..Len(reqs) :
        /\ reqs[id].kind = "WriteAndRead"
        /\ reply[id].res = "Io"
        /\ Complete(id)
        /\ ~HasEvent("Disconnected")

\* One step of a Write-and-Read whose deadline passes.
ReadTimeoutStep ==
    \A id \in 1..Len(reqs) :
        Answered(id, "Timeout") =>
            /\ reqs[id].kind = "WriteAndRead"
            /\ Len(response) < reqs[id].expected
            /\ read_buf = <<>>
            /\ events' = events
            /\ io_pc' = "select"
            /\ rt_q' = rt_q
            /\ bg_q' = bg_q

\* C30: a Write-and-Read is answered Timeout only while it holds fewer
\* response bytes than expected and no inbound byte is waiting; the step
\* publishes nothing, keeps both queues and puts the engine back in its
\* loop; the engine exits only on a failed or ended transport.
C30_ReadTimeoutKeepsEngine ==
    /\ [](io_pc = "exited" => port \in {"closed", "eof"})
    /\ [][ReadTimeoutStep]_vars

\* After a Write-and-Read was answered Timeout, a later request was written
\* and answered Ok and a later inbound byte was published; no Disconnected.
C30_Witness ==
    \E id, later \in 1..Len(reqs) :
        /\ reply[id].res = "Timeout"
        /\ id < later
        /\ reply[later].res = "Ok"
        /\ Complete(later)
        /\ FirstPos(later) > LastPos(id)
        /\ \E i \in 1..Len(events) : events[i].src > reply[id].upto
        /\ ~HasEvent("Disconnected")

(***************************************************************************)
(* Inbound bytes: every byte value arrives at an idle engine that was       *)
(* spawned with one of several min_wpm settings.                            *)
(***************************************************************************)
Bytes == 0..255

MinWpms == {0, DEFAULT_MIN_WPM, 200, 255}

ByteInit ==
    \E m \in MinWpms :
        SetupWith(builder_min_wpm(WinKeyerBuilder_new, m), 23, 0, ByteInbound, 0, TRUE)

ByteNext ==
    \/ \E b \in Bytes : queue_read(b)
    \/ IoRead

ByteSpec == ByteInit /\ [][ByteNext]_vars

\* The class events (everything but the break-in edge) of inbound byte k.
ClassEvents(k) == SelectSeq(EventsOf(k), LAMBDA e : e.kind # "PaddleBreakIn")

C27_SpeedPotSaturates ==
    \A k \in 1..nread :
        LET b == rx_log[k]
        IN  (b \in 128..191) =>
                /\ Len(ClassEvents(k)) = 1
                /\ ClassEvents(k)[1].kind = "SpeedPotChanged"
                /\ ClassEvents(k)[1].n = Min(255, min_wpm + (b % 64))
                /\ ClassEvents(k)[1].n >= min_wpm

\* The pot at 63 with min_wpm 200: the sum 263 was published as 255.
C27_Witness ==
    /\ min_wpm = 200
    /\ nread = 1
    /\ rx_log = <<191>>
    /\ ClassEvents(1)[1].n = 255

(***************************************************************************)
(* The template compiler: an application task compiles a template.          *)
(***************************************************************************)
\* let bytes = build_contest_message(template)
Compile(t) ==
    /\ pc[t] = "compile"
    /\ Return(t, Result("Ok", build_contest_message(op[t].arg)))
    /\ UNCHANGED <<op, sub, saw_xoff, budget, rid>>
    /\ UNCHANGED <<queue_vars, io_vars, port_vars, state_vars>>
    /\ UNCHANGED keyer_vars

\* '<' '>' '{' '}' 'A' 'R' 'a' '0' '3'
TemplateChars == {60, 62, 123, 125, 65, 82, 97, 48, 51}

\* "{28}CQ TEST K1EL{20} 5NN<AR>"
ExampleTemplate ==
    <<123, 50, 56, 125, 67, 81, 32, 84, 69, 83, 84, 32, 75, 49, 69, 76,
      123, 50, 48, 125, 32, 53, 78, 78, 60, 65, 82, 62>>

Templates ==
    UNION {[1..n -> TemplateChars] : n \in 0..MaxTemplate} \cup {ExampleTemplate}

\* Task 1 is about to compile a template.
MsgInit ==
    \E template \in Templates :
        /\ Installed(WinKeyerBuilder_new, 23, 0, 0, 0, TRUE)
        /\ pc = [t \in Tasks |-> IF t = 1 THEN "compile" ELSE "idle"]
        /\ op = [t \in Tasks |-> IF t = 1
                                 THEN Op("build_contest_message", template, 0)
                                 ELSE NoOp]

MsgNext == \E t \in Tasks : Compile(t)

MsgSpec == MsgInit /\ [][MsgNext]_vars

\* The template task 1 compiled, and the bytes it got back.
Compiled == op[1].name = "build_contest_message" /\ pc[1] = "idle"

Template == op[1].arg

Output == result[1].data

Closing(open) == IF open = 60 THEN 62 ELSE 125

\* The tokens of a template, left to right: <NAME>, {N} or one plain
\* character.  A token that lacks its closing bracket runs to the end.
RECURSIVE Tokens(_)
Tokens(tpl) ==
    IF tpl = <<>> THEN <<>>
    ELSE IF Head(tpl) \in {60, 123}
    THEN LET ends == {i \in 2..Len(tpl) : tpl[i] = Closing(Head(tpl))}
             e    == IF ends = {} THEN Len(tpl) + 1
                     ELSE CHOOSE i \in ends : \A j \in ends : i <= j
         IN  <<[open |-> Head(tpl), body |-> SubSeq(tpl, 2, e - 1),
                closed |-> ends # {}]>>
             \o Tokens(IF ends = {} THEN <<>> ELSE SubSeq(tpl, e + 1, Len(tpl)))
    ELSE <<[open |-> 0, body |-> <<Head(tpl)>>, closed |-> TRUE]>>
         \o Tokens(Tail(tpl))

AllDigits(body) == \A i \in 1..Len(body) : body[i] \in 48..57

\* Every token is closed and every {N} holds nothing but digits.
WellFormed(tpl) ==
    \A i \in 1..Len(Tokens(tpl)) :
        /\ Tokens(tpl)[i].closed
        /\ Tokens(tpl)[i].open = 123 => AllDigits(Tokens(tpl)[i].body)

RECURSIVE NumberOf(_)
NumberOf(body) ==
    IF body = <<>> THEN 0
    ELSE (body[Len(body)] - 48) + 10 * NumberOf(SubSeq(body, 1, Len(body) - 1))

Upper(body) == [i \in 1..Len(body) |-> IF body[i] \in 97..122 THEN body[i] - 32 ELSE body[i]]

\* AR, SK, BT, KN, AS
Names == {<<65, 82>>, <<83, 75>>, <<66, 84>>, <<75, 78>>, <<65, 83>>}

\* The bytes of one token.  Read strictly, a name counts only as written and
\* any N >= 1 is a speed; read loosely, a name counts in either case and only
\* N in 1..255 is a speed, a larger N cancelling like {0}.
TokenBytes(tok, loosely) ==
    CASE tok.open = 60 ->
           LET name == IF loosely THEN Upper(tok.body) ELSE tok.body
           IN  IF name \in Names THEN <<27>> \o name ELSE <<>>
      [] tok.open = 123 ->
           LET n == NumberOf(tok.body)
           IN  IF n >= 1 /\ (loosely => n <= 255) THEN <<28, n>> ELSE <<30>>
      [] OTHER -> Upper(tok.body)

RECURSIVE Translated(_, _)
Translated(toks, loosely) ==
    IF toks = <<>> THEN <<>>
    ELSE TokenBytes(Head(toks), loosely) \o Translated(Tail(toks), loosely)

\* 1C 1C "CQ TEST K1EL" 1C 14 " 5NN" 1B 41 52
ExampleBytes ==
    <<28, 28, 67, 81, 32, 84, 69, 83, 84, 32, 75, 49, 69, 76,
      28, 20, 32, 53, 78, 78, 27, 65, 82>>

\* C28 as stated: the output of a well-formed template is the translation of
\* its tokens, where <NAME> yields 1B c1 c2 exactly for NAME in
\* {AR, SK, BT, KN, AS} and nothing for any other name, {N} yields 1C N for
\* every N >= 1 and 1E for {0} and {}, and a plain character yields its
\* upper-case byte.
C28_TokenByToken ==
    (Compiled /\ WellFormed(Template)) =>
        Output = Translated(Tokens(Template), FALSE)

\* C28, amended: build_contest_message is total (every template yields a
\* sequence of bytes), and the output of a well-formed template is the
\* translation of its tokens where names are matched without regard to case,
\* {N} yields 1C N only for 1 <= N <= 255, and {0}, {} and any N above 255
\* yield 1E; the example template gives the example bytes.
C28_TokenByTokenU8 ==
    Compiled =>
        /\ \A i \in 1..Len(Output) : Output[i] \in 0..255
        /\ WellFormed(Template) => Output = Translated(Tokens(Template), TRUE)
        /\ Template = ExampleTemplate => Output = ExampleBytes

\* "{300}" was compiled and gave the single byte 1E.
C28_Witness ==
    /\ Compiled
    /\ Template = <<123, 51, 48, 48, 125>>
    /\ WellFormed(Template)
    /\ Output = <<30>>

(***************************************************************************)
(* The two read paths.                                                      *)
(***************************************************************************)
\* The engine state the idle path alone would reach from the first k inbound
\* bytes, echoes and positional replies left out.
RECURSIVE IdleReplay(_)
IdleReplay(k) ==
    IF k = 0
    THEN [xoff |-> FALSE, prev_breakin |-> FALSE, min_wpm |-> min_wpm,
          events |-> <<>>]
    ELSE IF rx_log[k] >= 128 /\ k \notin TakenPositionally
    THEN process_received_byte(rx_log[k], k, IdleReplay(k - 1))
    ELSE IdleReplay(k - 1)

NotEcho(es) == SelectSeq(es, LAMBDA e : e.kind # "CharacterSent")

\* The positions read while request id was waiting for its response.
ReadInWait(id) ==
    {k \in 1..nread :
        \E i \in 1..Len(served) :
            /\ served[i].id = id
            /\ reqs[id].kind = "WriteAndRead"
            /\ k > served[i].nread
            /\ reply[id].res = "none" \/ k <= reply[id].upto}

InSomeWait == UNION {ReadInWait(id) : id \in 1..Len(reqs)}

\* C31: a Status or SpeedPot byte has the same effect in both read paths:
\* the xoff flag, prev_breakin and the published events (echoes apart) are
\* those the idle path alone would have produced from the same bytes in the
\* same order, and the number of PaddleBreakIn events is the number of
\* 0-to-1 breakin transitions, wherever the two Status bytes were read.
C31_SamePaths ==
    /\ xoff = IdleReplay(nread).xoff
    /\ prev_breakin = IdleReplay(nread).prev_breakin
    /\ NotEcho(events) = IdleReplay(nread).events
    /\ Len(SelectSeq(events, LAMBDA e : e.kind = "PaddleBreakIn"))
           = Cardinality({k \in StatusPos : RisingEdge(k)})

\* C2 was read in the idle path and a second C2 while a Write-and-Read was
\* waiting: one PaddleBreakIn.
C31_Witness ==
    /\ \E j \in StatusPos \ InSomeWait, k \in StatusPos \cap InSomeWait :
           /\ j < k
           /\ BreakinBit(j)
           /\ BreakinBit(k)
    /\ Len(SelectSeq(events, LAMBDA e : e.kind = "PaddleBreakIn")) = 1

(***************************************************************************)
(* Event order: an idle engine against a keyer whose bytes arrive one or    *)
(* two at a time.                                                           *)
(***************************************************************************)
\* An echo ('C'), a speed-pot byte, status with breakin=0 and breakin=1.
OrderBytes == {67, 128, 192, 194}

SlicesSent == {<<a>> : a \in OrderBytes} \cup {<<a, b>> : a, b \in OrderBytes}

OrderInit == Setup(0, OrderSlices, 0, TRUE)

OrderNext ==
    \/ \E bytes \in SlicesSent : queue_read_slice(bytes)
    \/ IoRead

OrderSpec == OrderInit /\ [][OrderNext]_vars

\* C32: events are published in inbound byte order: every byte the idle
\* path has read has its events on the bus, and every event derived from an
\* earlier byte comes before every event derived from a later one, also
\* when one transport read returned both bytes.
C32_EventOrder ==
    /\ \A k \in 1..nread : EventsOf(k) # <<>>
    /\ \A i, j \in 1..Len(events) :
           (events[i].src < events[j].src) => i < j

\* The only slice sent so far held two bytes (C2 and 'C'); one read
\* returned both: PaddleBreakIn, StatusChanged, then CharacterSent.
C32_Witness ==
    /\ budget.inbound = OrderSlices - 1
    /\ rx_log = <<194, 67>>
    /\ nread = 2
    /\ Len(events) = 3
    /\ events[3].kind = "CharacterSent"

(***************************************************************************)
(* XOFF at the gate and at write time.                                      *)
(***************************************************************************)
\* The engine writes bytes of a gated BG request in this step.
WritesGated ==
    /\ write_log' # write_log
    /\ cur # 0
    /\ reqs[cur].chan = "bg"
    /\ op[reqs[cur].task].name \in GatedOps

\* C33 as stated: the engine writes no byte of a gated BG operation while
\* the shared xoff flag is set.
C33_NoWriteWhileXoff == [][WritesGated => ~xoff]_vars

\* Task t leaves the gate in this step: its call may now send its request.
PassesGate(t) == pc[t] # "send" /\ pc'[t] = "send"

\* Task t queues the request of a gated operation in this step.
QueuesGated(t) ==
    /\ rid'[t] # rid[t]
    /\ rid'[t] # 0
    /\ op'[t].name \in GatedOps

GateStepOk ==
    \A t \in Tasks :
        /\ PassesGate(t) =>
               /\ op'[t].name \in GatedOps
               /\ \/ ~xoff
                  \/ pc[t] = "recv" /\ clears_xoff(events[sub[t]])
        /\ QueuesGated(t) => (pc[t] = "send" /\ reqs'[rid'[t]].chan = "bg")

\* C33, amended: XOFF is honoured at the gate.  A gated BG operation queues
\* its request only after it has left the gate, and it leaves the gate only
\* when it loads the xoff flag clear or receives a StatusChanged with
\* xoff=0.  The engine does not look at the flag: a request that passed the
\* gate is written even if a Status byte with xoff=1 was processed since.
C33_GateNotWrite == [][GateStepOk]_vars

\* The engine is part-way through writing a message whose call found the
\* flag clear, and the flag is set.
C33_Witness ==
    /\ io_pc = "write"
    /\ pos > 0
    /\ xoff
    /\ reqs[cur].chan = "bg"
    /\ op[reqs[cur].task].name \in GatedOps
    /\ ~saw_xoff[reqs[cur].task]

(***************************************************************************)
(* Concurrent set_paddle_mode calls.                                        *)
(***************************************************************************)
\* Every task has called set_paddle_mode and got Ok, and nothing else was
\* ever requested.
PaddleCallsDone ==
    /\ \A t \in Tasks : op[t].name = "set_paddle_mode" /\ Finished(t, "Ok")
    /\ \A id \in 1..Len(reqs) : id \in ModeWrites /\ reply[id].res = "Ok"

\* C34: after concurrent set_paddle_mode calls from different tasks have
\* all completed successfully, the cached mode register is the mode byte of
\* the last 0E command on the wire.
C34_CacheIsLastWritten ==
    PaddleCallsDone => keyer.mode_register = write_log[Len(write_log)].b

\* Two calls completed and the cache holds the byte of the first 0E command
\* written, not of the last.
C34_LostUpdate ==
    /\ PaddleCallsDone
    /\ Len(write_log) = 4
    /\ keyer.mode_register = write_log[2].b
    /\ keyer.mode_register # write_log[4].b

(***************************************************************************)
(* Reply deadlines: an abort and a message from two tasks against an engine *)
(* that may be slow; the only fault is a reply deadline that passes.        *)
(***************************************************************************)
TimeoutOps == {Op("abort", <<>>, 0), Op("send_message", <<99, 113>>, 0)}

TimeoutInit == Setup(TimeoutCalls, 0, MaxFaults, TRUE)

TimeoutNext ==
    \/ IoRecvRt
    \/ IoRecvBg
    \/ IoWrite
    \/ \E t \in Tasks, o \in TimeoutOps : Call(t, o)
    \/ \E t \in Tasks : CommandStep(t)

TimeoutSpec == TimeoutInit /\ [][TimeoutNext]_vars

\* The last call of task t was a write that returned Timeout.
GaveUp(t) == Finished(t, "Timeout") /\ rid[t] # 0

\* C35 as stated: when a write operation has returned Timeout, none of its
\* bytes is on the wire, then or later.
C35_NotWrittenAfterTimeout ==
    \A t \in Tasks : GaveUp(t) => ~OnWire(rid[t])

\* Task t gives up in this step: its reply deadline passes.
GivesUp(t) == pc[t] = "await" /\ pc'[t] = "idle" /\ result'[t].res = "Timeout"

\* The engine receives request id in this step.
Receives(id) ==
    /\ io_pc = "select"
    /\ served' # served
    /\ served'[Len(served')].id = id

TimeoutStep ==
    /\ \A t \in Tasks :
           GivesUp(t) =>
               /\ reply[rid[t]].res = "none"
               /\ rt_q' = rt_q
               /\ bg_q' = bg_q
               /\ cur' = cur
               /\ write_log' = write_log
    /\ \A id \in 1..Len(reqs) :
           (Receives(id) /\ reqs[id].kind # "Shutdown") =>
               (io_pc' = "write" /\ cur' = id)

\* C35, amended: a Timeout return says nothing about the wire.  The reply
\* deadline passes only while the engine has not yet replied; the request
\* stays where it is (queued, or part-written), and the engine takes it up
\* and writes all its bytes like any other request, whether or not its
\* caller still waits.
C35_WrittenAfterTimeout ==
    /\ [][TimeoutStep]_vars
    /\ [](\A id \in 1..Len(reqs) : reply[id].res = "Ok" => Complete(id))

\* Task 1 made two calls and task 2 none; one reply deadline has passed and
\* the second call still waits, so it was the first call that gave up; the
\* engine received the first request when the second was already queued,
\* and has written it.
C35_Witness ==
    /\ Len(reqs) = 2
    /\ reqs[1].task = 1 /\ reqs[2].task = 1
    /\ pc[1] = "await" /\ rid[1] = 2
    /\ budget.faults = MaxFaults - 1
    /\ WasServed(1)
    /\ served[ServedAt(1)].seen = 2
    /\ Complete(1)

(***************************************************************************)
(* Echoes during a Write-and-Read: a message and an Ascii Write-and-Read of *)
(* one byte against a keyer that echoes 'C' and sends status bytes; the     *)
(* read deadline may pass.                                                  *)
(***************************************************************************)
EchoOps == {Op("send_message", <<99, 113>>, 0),
            Op("rt_command_read", <<0, 9>>, 1)}

\* The echo of 'C' and a status byte.
EchoBytes == {67, 192}

EchoInit == Setup(EchoCalls, EchoInbound, MaxFaults, TRUE)

EchoNext ==
    \/ IoRecvRt
    \/ IoRecvBg
    \/ IoRead
    \/ IoWrite
    \/ IoReadStep
    \/ \E t \in Tasks, o \in EchoOps : Call(t, o)
    \/ \E t \in Tasks : Send(t)
    \/ \E t \in Tasks : Await(t)
    \/ \E b \in EchoBytes : queue_read(b)

EchoSpec == EchoInit /\ [][EchoNext]_vars

AsciiWaits ==
    {id \in 1..Len(reqs) :
        /\ WasServed(id)
        /\ reqs[id].kind = "WriteAndRead"
        /\ reqs[id].framing = "Ascii"}

\* The low bytes read while request id was waiting, in arrival order.
LowInWait(id) ==
    SelectSeq(Arrived(WaitFrom(id),
                      IF reply[id].res = "none" THEN nread ELSE reply[id].upto),
              LAMBDA b : b < 128)

\* C36: while an Ascii Write-and-Read waits, every inbound byte 00..7F goes
\* to the response and has no event: the low bytes read during the wait
\* are, in order, the response collected so far (the reply's bytes once it
\* is Ok), whatever was sent before; a low byte read outside every wait is
\* published as CharacterSent.
C36_LowBytesToResponse ==
    /\ \A id \in AsciiWaits :
           /\ \A k \in ReadInWait(id) : rx_log[k] < 128 => EventsOf(k) = <<>>
           /\ (reply[id].res = "none" /\ io_pc = "read") =>
                  (cur = id /\ response = LowInWait(id))
           /\ reply[id].res = "Ok" => reply[id].data = LowInWait(id)
    /\ \A k \in (1..nread) \ InSomeWait :
           rx_log[k] < 128 =>
               (Len(EventsOf(k)) = 1 /\ EventsOf(k)[1].kind = "CharacterSent")

\* "CQ" was on the wire before the Write-and-Read was written; the keyer's
\* echo 'C' arrived during the wait and was returned as the reply; no
\* CharacterSent was published.
C36_Witness ==
    \E m, id \in 1..Len(reqs) :
        /\ reqs[m].data = <<67, 81>>
        /\ id \in AsciiWaits
        /\ OnWire(id)
        /\ WrittenBefore(m, id)
        /\ reply[id].res = "Ok"
        /\ reply[id].data = <<67>>
        /\ ~HasEvent("CharacterSent")

(***************************************************************************)
(* After Disconnected.                                                      *)
(***************************************************************************)
\* C37: Disconnected is terminal: once it is on the bus the engine writes
\* no further byte and publishes no further event.
C37_DisconnectedTerminal ==
    [][HasEvent("Disconnected") => (write_log' = write_log /\ events' = events)]_vars

\* Disconnected is on the bus twice: a failed write published the first and
\* the engine went on.
C37_DisconnectedTwice ==
    Len(SelectSeq(events, LAMBDA e : e.kind = "Disconnected")) = 2

(***************************************************************************)
(* WaitSpec: a Write-and-Read whose response comes or does not, an abort    *)
(* submitted meanwhile, and cancellation.                                   *)
(***************************************************************************)
WaitOps == {Op("rt_command_read", <<0, 9>>, 1),
            Op("abort", <<>>, 0)}

\* A response byte (0x55).
WaitBytes == {85}

WaitInit == Setup(WaitCalls, WaitInbound, MaxFaults, TRUE)

WaitNext ==
    \/ IoCancelled
    \/ IoRecvRt
    \/ IoWrite
    \/ IoReadStep
    \/ \E t \in Tasks, o \in WaitOps : Call(t, o)
    \/ \E t \in Tasks : Await(t)
    \/ \E b \in WaitBytes : queue_read(b)
    \/ Cancel

WaitSpec == WaitInit /\ [][WaitNext]_vars

\* The engine is awaiting the response of the Write-and-Read it holds.
AwaitingResponse == io_pc = "read"

\* C38: while the engine awaits the response of a Write-and-Read, no step
\* writes a byte, dequeues a request or exits the engine; the wait ends only
\* with the reply of that Write-and-Read (Ok, Io or Timeout).
C38_WaitServicesNothingElse ==
    [][AwaitingResponse =>
          /\ write_log' = write_log
          /\ served' = served
          /\ io_pc' # "exited"
          /\ (io_pc' # "read" =>
                 /\ io_pc' = "select"
                 /\ reply'[cur].res \in {"Ok", "Io", "Timeout"})]_vars

\* The engine awaits a response while cancellation is raised and an abort
\* is queued, none of its bytes written.
C38_Witness ==
    /\ AwaitingResponse
    /\ cancelled
    /\ \E i \in 1..Len(rt_q) : IsAbort(rt_q[i]) /\ ~OnWire(rt_q[i])

(***************************************************************************)
(* DrainSpec: the handshake against a keyer that sends a version byte (23)  *)
(* and a Status byte with xoff and breakin set (C3) at any moment.          *)
(***************************************************************************)
DrainBytes == {23, 195}

DrainInit == BuildInitWith(DrainInbound, {WinKeyerBuilder_new})

DrainNext ==
    \/ BuildStep
    \/ Subscribe
    \/ IoRead
    \/ \E b \in DrainBytes : queue_read(b)

DrainSpec == DrainInit /\ [][DrainNext]_vars

\* A step of one of the two drains.
InDrain == builder.pc \in {"drain", "drain_post"}

\* The step ends a drain on a transport that is still open.
DrainEnds == InDrain /\ builder'.pc # builder.pc /\ port = "open"

\* What a step may do while the handshake runs.
DrainStepOk ==
    /\ (InDrain /\ read_buf' # read_buf /\ Len(rx_log') = Len(rx_log)) =>
           \* a drain read: the bytes are gone and nothing else changes
           /\ read_buf' = <<>>
           /\ nread' = Len(rx_log)
           /\ builder' = builder
           /\ events' = events
    /\ DrainEnds => nread = Len(rx_log)
    /\ (builder.pc = "version" /\ builder'.version_byte # builder.version_byte) =>
           \* the version byte is the first byte not yet taken
           builder'.version_byte = rx_log[nread + 1]
    /\ (builder.pc = "version" /\ builder' # builder /\ nread = Len(rx_log)
           /\ port = "open") =>
           \* nothing is left to read: the build fails with Timeout
           /\ builder'.pc = "failed"
           /\ builder'.result = "Timeout"
    /\ (builder.pc = "start" /\ builder'.pc = "done") =>
           \* the engine starts
           /\ ~xoff' /\ ~prev_breakin'
           /\ \A i \in 1..Len(events') : events'[i].src = 0
    /\ (io_pc = "select" /\ nread' > nread) =>
           \* an engine read: its events come from the bytes it took
           \A i \in (Len(events) + 1)..Len(events') :
               events'[i].src \in (nread + 1)..nread'

\* C39: the bytes a handshake drain receives are discarded, with no event
\* and no change of the flags, and a drain ends only when every byte that
\* has arrived is gone; so the version byte the build takes arrived after
\* the first drain, a build with nothing left to read fails with Timeout,
\* the engine starts with xoff and prev_breakin false, and every event it
\* publishes comes from a byte it read itself.
C39_DrainsDiscard ==
    /\ [](io_pc = "none" => (~xoff /\ ~prev_breakin /\ events = <<>>))
    /\ [][DrainStepOk]_vars

\* The keyer sent a Status byte and its version byte before the first
\* drain ended, and nothing after: the build failed with Timeout.
C39_Witness ==
    /\ BuildFailed("Timeout")
    /\ rx_log = <<195, 23>>
    /\ nread = 2
    /\ port = "open"

(***************************************************************************)
(* CloseSpec: close() among other calls, transport failure and              *)
(* cancellation, with the engine task and the calling tasks scheduled       *)
(* fairly (the runtime polls every task that can make progress).            *)
(***************************************************************************)
CloseInit == Setup(CloseCalls, 0, MaxFaults, TRUE)

CloseNext ==
    \/ IoStep
    \/ \E t \in Tasks, o \in Ops : Call(t, o)
    \/ \E t \in Tasks : CommandStep(t)
    \/ \E t \in Tasks : CloseStep(t)
    \/ PortClose
    \/ Cancel

TaskStep(t) == CommandStep(t) \/ CloseStep(t)

CloseSpec ==
    /\ CloseInit
    /\ [][CloseNext]_vars
    /\ WF_vars(IoStep)
    /\ \A t \in Tasks : WF_vars(TaskStep(t))

\* Task t is inside a call of close().
InClose(t) == op[t].name = "close" /\ pc[t] # "idle"

\* C40: every call of close() returns; when one has returned the engine has
\* exited or its cancellation is raised, from then on it dequeues no
\* request (and only a dequeued request has bytes on the wire), and it
\* eventually exits.
C40_CloseTerminates ==
    /\ \A t \in Tasks : InClose(t) ~> ~InClose(t)
    /\ [](CloseReturned => ShutDown)
    /\ [][CloseReturned => served' = served]_vars
    /\ [](\A id \in 1..Len(reqs) : OnWire(id) => WasServed(id))
    /\ CloseReturned ~> (io_pc = "exited")

\* A close() whose Shutdown request was dropped unanswered has returned: the
\* engine is gone, and a request enqueued after the Shutdown request was
\* never dequeued.
C40_Witness ==
    /\ io_pc = "exited"
    /\ cancelled
    /\ \E t \in Tasks :
           /\ op[t].name = "close" /\ Finished(t, "Ok")
           /\ rid[t] > 0
           /\ reqs[rid[t]].kind = "Shutdown"
           /\ reply[rid[t]].res = "dropped"
           /\ \E id \in 1..Len(reqs) :
                  id > rid[t] /\ ~WasServed(id) /\ ~OnWire(id)

====
